---- MODULE Spec2Model ----
(***************************************************************************)
(* Model of the protein-knot-detector core: the DoubleMatrix trace store,  *)
(* the TaylorKnotAlgorithm handle operations (setMatrix / getMatrix), the  *)
(* smoothing driver smooth(nRepeat) with its relaxation filter and its     *)
(* Moeller-Trumbore self-intersection guard, and smoothAuto.               *)
(*                                                                         *)
(* Numbers.  The source computes in 32-bit float.  The model holds every   *)
(* coordinate as an integer count of 1/Scale units (Scale = 2^FracBits),   *)
(* i.e. as an exact dyadic rational, and follows a trace only for as many  *)
(* passes as every candidate stays a multiple of 1/Scale (Budget).  On     *)
(* these inputs the float candidate is exact, and the guard's comparisons  *)
(* (ratios of cubic forms against 0, 1, 1e-6, 1e-7 and 10000) are written  *)
(* as the equivalent integer comparisons.                                  *)
(***************************************************************************)
EXTENDS Integers, Sequences, FiniteSets, TLC

(* ------------------------------ bounds -------------------------------- *)

\* Fraction bits kept per coordinate.
FracBits == 6

\* Largest nRepeat budget followed for a trace of the generic family.
MaxRepeat == 2

\* Largest vertex count of the generic family of traces.
MaxCount == 4

Scale == 2 ^ FracBits

\* Vertex positions the generic family of traces is built from.
Points ==
  { <<0, 0, 0>>, <<1, 0, 0>>, <<2, 0, 0>>, <<1, 1, 0>>, <<0, 1, 1>> }

(* --------------------------- DoubleMatrix ------------------------------ *)

\* DoubleMatrix(size): s = size, n = s * 3, m = new float[n].  The buffer is
\* a function on 0 .. n-1; pts gives the initial contents, one point per
\* vertex, in whole units.
DoubleMatrix(pts) ==
  [ s |-> Len(pts),
    n |-> Len(pts) * 3,
    m |-> [ idx \in 0 .. (Len(pts) * 3 - 1) |->
              pts[(idx \div 3) + 1][(idx % 3) + 1] * Scale ] ]

\* float* p = x + off; p[0], p[1], p[2]
At(x, off) == << x[off], x[off + 1], x[off + 2] >>

(* ------------------- CROSS, DOT, SUB3 (the macros) --------------------- *)

CROSS(v1, v2) ==
  << v1[2] * v2[3] - v1[3] * v2[2],
     v1[3] * v2[1] - v1[1] * v2[3],
     v1[1] * v2[2] - v1[2] * v2[1] >>

DOT(v1, v2) == v1[1] * v2[1] + v1[2] * v2[2] + v1[3] * v2[3]

SUB3(v1, v2) == << v1[1] - v2[1], v1[2] - v2[2], v1[3] - v2[3] >>

(* ------------------------- program constants --------------------------- *)

\* tFar = 10000.0f
tFar == 10000

\* tNear = 0.0000001f = 1 / tNearInv
tNearInv == 10000000

\* the determinant epsilon 0.000001f = 1 / detEpsInv
detEpsInv == 1000000

Sign(a) == IF a > 0 THEN 1 ELSE IF a < 0 THEN -1 ELSE 0

Abs(a) == IF a < 0 THEN -a ELSE a

(* ---------------- the probe: Moeller-Trumbore ray/triangle ------------- *)

\* det > -0.000001f && det < 0.000001f, for det = d / Scale^3:
\* |d| * detEpsInv < Scale^3, written without the large product.
DetNearZero(d) == Abs(d) <= ((Scale * Scale * Scale) - 1) \div detEpsInv

\* A plausible slip: the culling branch of the Moeller-Trumbore test, which
\* drops every triangle seen from behind (det < epsilon).
MollerTrumboreCulling(rayOrigin, rayDirection, v0, v1, v2) ==
  LET edge1 == SUB3(v1, v0)
      edge2 == SUB3(v2, v0)
      pvec  == CROSS(rayDirection, edge2)
      det   == DOT(edge1, pvec)
      tvec  == SUB3(rayOrigin, v0)
      uN    == DOT(tvec, pvec)
      qvec  == CROSS(tvec, edge1)
      vN    == DOT(rayDirection, qvec)
      tN    == DOT(edge2, qvec)
  IN  /\ det > ((Scale * Scale * Scale) - 1) \div detEpsInv
      /\ ~ (uN < 0 \/ uN > det)
      /\ ~ (vN < 0 \/ uN + vN >= det)
      /\ ~ (tN <= det \div tNearInv \/ tN \div tFar >= det)

\* One probe of the guard: TRUE when control reaches "goto intersect".
\* u = uN / det, v = vN / det, t = tN / det (inv_det = 1 / det); every
\* vector is in 1/Scale units, so the three ratios are scale-free.
MollerTrumbore(rayOrigin, rayDirection, v0, v1, v2) ==
  LET edge1 == SUB3(v1, v0)
      edge2 == SUB3(v2, v0)
      pvec  == CROSS(rayDirection, edge2)
      det   == DOT(edge1, pvec)
      tvec  == SUB3(rayOrigin, v0)
      uN    == DOT(tvec, pvec)
      qvec  == CROSS(tvec, edge1)
      vN    == DOT(rayDirection, qvec)
      tN    == DOT(edge2, qvec)
      sg    == Sign(det)
      ad    == Abs(det)
  IN  /\ ~ DetNearZero(det)                           \* else continue
      /\ ~ (sg * uN < 0 \/ sg * uN > ad)              \* u < 0 || u > 1
      /\ ~ (sg * vN < 0 \/ sg * (uN + vN) >= ad)      \* v < 0 || u + v >= 1
      /\ ~ (\/ sg * tN <= ad \div tNearInv            \* t <= tNear
            \/ (sg * tN) \div tFar >= ad)             \* t >= tFar

(* ------------------------- smooth: one vertex -------------------------- *)

Half == 2 ^ 16

\* The low 32 bits of the size_t difference a - b (0 <= a, b < 2^31), as the
\* pair << high half-word, low half-word >>: size_t arithmetic wraps.
SubSizeT(a, b) ==
  LET lo     == (a % Half) - (b % Half)
      borrow == IF lo < 0 THEN 1 ELSE 0
      hi     == (a \div Half) - (b \div Half) - borrow
  IN  << hi % Half, lo % Half >>

\* Narrowing of those 32 bits to int (two's complement).
ToInt(w) == (IF w[1] >= Half \div 2 THEN w[1] - Half ELSE w[1]) * Half + w[2]

\* A plausible slip: the last vertex and the last segment both taken off
\* the bound.
LoopBoundShort(mat) == mat.n - 6

\* A plausible slip: the bound kept unsigned, so 0 - 3 is a huge count
\* (stood for by the largest int).
LoopBoundUnsigned(mat) == IF mat.n >= 3 THEN mat.n - 3 ELSE 2147483647

\* int n = m->n - 3;
LoopBound(mat) == ToInt(SubSizeT(mat.n, 3))

\* A plausible slip: the vertex pulled onto the midpoint of its neighbours
\* (v1a left out of the average).
V1pMidpoint(x, ii) ==
  [ ax \in 1 .. 3 |-> (x[ii - 3 + ax - 1] + x[ii + 3 + ax - 1]) \div 2 ]

\* A plausible slip: one halving of the relaxation kernel forgotten.
V1pNoOuterHalf(x, ii) ==
  [ ax \in 1 .. 3 |->
      (x[ii - 3 + ax - 1] + x[ii + 3 + ax - 1]) \div 2 + x[ii + ax - 1] ]

\* v1p[a] = ((v0a[a] + v2a[a]) / 2 + v1a[a]) / 2 with v0a = x + i - 3,
\* v1a = x + i, v2a = x + i + 3.
V1p(x, ii) ==
  [ ax \in 1 .. 3 |->
      ((x[ii - 3 + ax - 1] + x[ii + 3 + ax - 1]) \div 2 + x[ii + ax - 1]) \div 2 ]

\* Both halvings of V1p are exact in 1/Scale units.
Exact(x, ii) ==
  \A ax \in 0 .. 2 :
    /\ (x[ii - 3 + ax] + x[ii + 3 + ax]) % 2 = 0
    /\ ((x[ii - 3 + ax] + x[ii + 3 + ax]) \div 2 + x[ii + ax]) % 2 = 0

\* A plausible slip: k <= i, so the segment that ends at vertex i is probed.
EarlierKInclusive(ii) == { kk \in 3 .. ii : kk % 3 = 0 }

\* for (int k = 3; k < i; k += 3)
EarlierK(ii) == { kk \in 3 .. (ii - 1) : kk % 3 = 0 }

\* A plausible slip: k <= n, one segment too many (read past the buffer).
LaterKInclusive(ii, nn) == { kk \in (ii + 3) .. nn : kk % 3 = 0 }

\* for (int k = i + 3; k < n; k += 3)
LaterK(ii, nn) == { kk \in (ii + 3) .. (nn - 1) : kk % 3 = 0 }

\* A plausible slip: the ray direction taken as the edge vector far - near.
ProbeEarlierEdgeVector(x, ii, v0, v1, v2) ==
  \E kk \in EarlierK(ii) :
    MollerTrumbore(At(x, kk - 3), SUB3(At(x, kk), At(x, kk - 3)), v0, v1, v2)

\* A probe loop over the earlier segments: rayOrigin = x + k - 3,
\* rayDirection = x + k.
ProbeEarlier(x, ii, v0, v1, v2) ==
  \E kk \in EarlierK(ii) :
    MollerTrumbore(At(x, kk - 3), At(x, kk), v0, v1, v2)

\* A plausible slip: the ray direction taken as the edge vector far - near.
ProbeLaterEdgeVector(x, nn, ii, v0, v1, v2) ==
  \E kk \in LaterK(ii, nn) :
    MollerTrumbore(At(x, kk), SUB3(At(x, kk + 3), At(x, kk)), v0, v1, v2)

\* A probe loop over the later segments: rayOrigin = x + k,
\* rayDirection = x + k + 3.
ProbeLater(x, nn, ii, v0, v1, v2) ==
  \E kk \in LaterK(ii, nn) :
    MollerTrumbore(At(x, kk), At(x, kk + 3), v0, v1, v2)

\* A plausible slip: the guard compiled out, every move committed.
IntersectNever(x, nn, ii) == FALSE

\* The four probe loops of vertex i: TRUE when one reaches "goto intersect".
Intersect(x, nn, ii) ==
  LET v0a == At(x, ii - 3)
      v1a == At(x, ii)
      v2a == At(x, ii + 3)
      v1p == V1p(x, ii)
  IN  \/ ProbeEarlier(x, ii, v0a, v1a, v1p)      \* {i-1, i, i'}, j < i
      \/ ProbeEarlier(x, ii, v1a, v1p, v2a)      \* {i, i', i+1}, j < i
      \/ ProbeLater(x, nn, ii, v0a, v1a, v1p)    \* {i-1, i, i'}, j > i
      \/ ProbeLater(x, nn, ii, v1a, v1p, v2a)    \* {i, i', i+1}, j > i

\* A plausible slip: only the first axis of the candidate is written.
CommitFirstAxis(x, ii, v1p) == [ x EXCEPT ![ii] = v1p[1] ]

\* A plausible slip: the candidate kept in its scratch buffer, the write to
\* the trace put off (nothing is committed in place).
CommitDeferred(x, ii, v1p) == x

\* A plausible slip: the commit written through v2a instead of v1a.
CommitNext(x, ii, v1p) ==
  [ x EXCEPT ![ii + 3] = v1p[1], ![ii + 4] = v1p[2], ![ii + 5] = v1p[3] ]

\* v1a[0] = v1p[0]; v1a[1] = v1p[1]; v1a[2] = v1p[2];
Commit(x, ii, v1p) ==
  [ x EXCEPT ![ii] = v1p[1], ![ii + 1] = v1p[2], ![ii + 2] = v1p[3] ]

\* The body of the inner loop for index i: the buffer it leaves.
StepResult(x, nn, ii) ==
  IF Intersect(x, nn, ii) THEN x ELSE Commit(x, ii, V1p(x, ii))

\* The slots of v0a, v1a, v2a (x[i-3] .. x[i+5]) lie inside the buffer.
OwnInBounds(x, ii) == (ii - 3) \in DOMAIN x /\ (ii + 5) \in DOMAIN x

\* Every slot the body for index i touches lies inside the buffer: its own,
\* and x[k-3] .. x[k+2], x[k] .. x[k+5] for the k of the probe loops.
InBounds(x, nn, ii) ==
  /\ OwnInBounds(x, ii)
  /\ \A kk \in EarlierK(ii) : (kk - 3) \in DOMAIN x /\ (kk + 2) \in DOMAIN x
  /\ \A kk \in LaterK(ii, nn) : kk \in DOMAIN x /\ (kk + 5) \in DOMAIN x

\* What the body of the inner loop for index i can leave: the matrix, whether
\* the move was committed, and whether the call faulted.  With every slot
\* inside the buffer there is one outcome.  A slot outside the buffer is
\* undefined behaviour: the call faults, or goes on with either decision
\* taken on whatever was read.
BodyOutcomes(mat, ii) ==
  LET nn == LoopBound(mat)
  IN  IF InBounds(mat.m, nn, ii)
      THEN { [ m      |-> [ mat EXCEPT !.m = StepResult(@, nn, ii) ],
               accept |-> ~ Intersect(mat.m, nn, ii),
               fault  |-> FALSE ] }
      ELSE { [ m |-> mat, accept |-> FALSE, fault |-> TRUE ],
             [ m |-> mat, accept |-> FALSE, fault |-> FALSE ] }
             \cup
           ( IF OwnInBounds(mat.m, ii)
             THEN { [ m      |-> [ mat EXCEPT
                                     !.m = Commit(@, ii, V1p(mat.m, ii)) ],
                      accept |-> TRUE,
                      fault  |-> FALSE ] }
             ELSE { } )

(* ------------------------ smooth: the two loops ------------------------ *)

RECURSIVE PassFrom(_, _, _)
\* for (; i < n; i += 3) body
PassFrom(x, nn, ii) ==
  IF ii < nn /\ InBounds(x, nn, ii)
  THEN PassFrom(StepResult(x, nn, ii), nn, ii + 3)
  ELSE x

RECURSIVE SmoothFn(_, _, _)
\* for (j = 0; j < nRepeat; j++) for (i = 3; i < n; i += 3) body
SmoothFn(x, nn, nr) ==
  IF nr = 0 THEN x ELSE SmoothFn(PassFrom(x, nn, 3), nn, nr - 1)

RECURSIVE ExactPass(_, _, _)
ExactPass(x, nn, ii) ==
  IF ii < nn /\ InBounds(x, nn, ii)
  THEN Exact(x, ii) /\ ExactPass(StepResult(x, nn, ii), nn, ii + 3)
  ELSE TRUE

RECURSIVE ExactRun(_, _, _)
ExactRun(x, nn, nr) ==
  \/ nr = 0
  \/ ExactPass(x, nn, 3) /\ ExactRun(PassFrom(x, nn, 3), nn, nr - 1)

\* The number of passes (at most want) a trace is followed for.
Budget(mat, want) ==
  CHOOSE p \in 0 .. want :
    /\ ExactRun(mat.m, LoopBound(mat), p)
    /\ \A q \in (p + 1) .. want : ~ ExactRun(mat.m, LoopBound(mat), q)

(* ------------------------------ inputs -------------------------------- *)

\* Scenario A: five equally spaced collinear points.
ScenarioA ==
  << <<0, 0, 0>>, <<1, 0, 0>>, <<2, 0, 0>>, <<3, 0, 0>>, <<4, 0, 0>> >>

\* Scenario B: a "V".
ScenarioB == << <<0, 0, 0>>, <<1, 1, 0>>, <<2, 0, 0>> >>

\* Three collinear points, unequally spaced.
CollinearUneven == << <<0, 0, 0>>, <<1, 0, 0>>, <<3, 0, 0>> >>

\* Five points: the segment (v3, v4) = ((2,0,2), (3,1,0)) pierces the
\* triangle (v0, v1, candidate of v1) = ((0,0,1), (4,0,1), (3,1,1)) at
\* (2.5, 0.5, 1).
CrossTrace ==
  << <<0, 0, 1>>, <<4, 0, 1>>, <<4, 4, 1>>, <<2, 0, 2>>, <<3, 1, 0>> >>

\* Scenario C: six points: the segment (v3, v4) = ((2,0,0), (2,1,2)) pierces
\* the same triangle at (2, 0.5, 1).
ScenarioC ==
  << <<0, 0, 1>>, <<4, 0, 1>>, <<4, 4, 1>>, <<2, 0, 0>>, <<2, 1, 2>>,
     <<0, 1, 0>> >>

\* Every sequence of at most MaxCount points of Points.
GridTraces == UNION { [ 1 .. c -> Points ] : c \in 0 .. MaxCount }

InputOf(pts, want) ==
  [ matrix |-> DoubleMatrix(pts),
    budget |-> Budget(DoubleMatrix(pts), want) ]

Inputs ==
  { InputOf(pts, MaxRepeat) : pts \in GridTraces }
    \cup { InputOf(ScenarioA, 5), InputOf(CollinearUneven, 1),
           InputOf(CrossTrace, 1), InputOf(ScenarioC, 1) }

(* ------------------------------- state --------------------------------- *)

VARIABLES
  carbonAlphaMatrix,  \* main's std::unique_ptr<DoubleMatrix>: <<>> or <<matrix>>
  m,                  \* TaylorKnotAlgorithm::m: <<>> or <<matrix>>
  pc,                 \* "idle", "smooth" (inside smooth) or "fault"
  nRepeat,            \* smooth's argument
  j,                  \* smooth's pass counter
  i,                  \* smooth's array index of the vertex to visit next
  input,              \* the matrix the run started from
  budget,             \* passes this run is followed for
  used,               \* passes requested so far
  lastOp,             \* the operation called last
  pair,               \* two further TaylorKnotAlgorithm objects, each inside
                      \* its own smooth call (<< >> when there are none)
  matrix_,            \* MMDBAndCarbonAlphaMatrix::matrix_: <<>> or <<matrix>>
  matrixPtr_,         \* CarbonAlphaMatrixAndOCCT_Shape::matrixPtr_
  shapePtr_,          \* CarbonAlphaMatrixAndOCCT_Shape::shapePtr_: <<>> or
                      \* <<the sequence of edges added to the compound>>
  OCCT_ShapePtr,      \* main's std::unique_ptr<OCCT_Shape>
  modelTable,         \* main's model table: a sequence of models, << >> for
                      \* a null entry
  im,                 \* main's index into the model table
  modelId,            \* main's int modelId
  chainId,            \* main's cpstr chainId
  mainPc,             \* the line main stands at ("none": main not followed)
  round,              \* main's loop variable i of the smoothing rounds
  files               \* the STEP files written, in order: name and shape

\* The collaborators of the export side.
exportVars == << matrix_, matrixPtr_, shapePtr_, OCCT_ShapePtr >>

\* The variables of main itself.
mainVars == << modelTable, im, modelId, chainId, mainPc, round, files >>

vars ==
  << carbonAlphaMatrix, m, pc, nRepeat, j, i, input, budget, used, lastOp,
     pair, exportVars, mainVars >>

\* main is not followed: its variables rest.
MainIdle ==
  /\ modelTable = << >>
  /\ im = 0
  /\ modelId = -1
  /\ chainId = "indeterminate"
  /\ mainPc = "none"
  /\ round = 0
  /\ files = << >>

Init ==
  \E inp \in Inputs :
    /\ carbonAlphaMatrix = << inp.matrix >>
    /\ m = << >>
    /\ pc = "idle"
    /\ nRepeat = 0
    /\ j = 0
    /\ i = 0
    /\ input = inp.matrix
    /\ budget = inp.budget
    /\ used = 0
    /\ lastOp = "init"
    /\ pair = << >>
    /\ matrix_ = << >>
    /\ matrixPtr_ = << >>
    /\ shapePtr_ = << >>
    /\ OCCT_ShapePtr = << >>
    /\ MainIdle

(* ----------------------------- operations ------------------------------ *)

\* taylorAlgorithm.setMatrix(std::move(carbonAlphaMatrix)): m = std::move(matrixPtr)
setMatrix ==
  /\ pc = "idle"
  /\ m' = carbonAlphaMatrix
  /\ carbonAlphaMatrix' = << >>
  /\ lastOp' = "setMatrix"
  /\ UNCHANGED << mainVars, pc, nRepeat, j, i, input, budget, used, pair, exportVars >>

\* carbonAlphaMatrix = taylorAlgorithm.getMatrix(): return std::move(m)
getMatrix ==
  /\ pc = "idle"
  /\ carbonAlphaMatrix' = m
  /\ m' = << >>
  /\ lastOp' = "getMatrix"
  /\ UNCHANGED << mainVars, pc, nRepeat, j, i, input, budget, used, pair, exportVars >>

\* A plausible slip: smoothAuto releasing the trace.
smoothAutoReset ==
  /\ pc = "idle"
  /\ m' = << >>
  /\ lastOp' = "smoothAuto"
  /\ UNCHANGED << mainVars, carbonAlphaMatrix, pc, nRepeat, j, i, input, budget, used, pair, exportVars >>

\* void TaylorKnotAlgorithm::smoothAuto() { }
smoothAuto ==
  /\ pc = "idle"
  /\ lastOp' = "smoothAuto"
  /\ UNCHANGED << mainVars, carbonAlphaMatrix, m, pc, nRepeat, j, i, input, budget, used, pair, exportVars >>

\* smooth(nr) entered with a trace held: x = m->m, n = m->n - 3, j = 0.
smoothCall ==
  /\ pc = "idle"
  /\ m # << >>
  /\ \E nr \in 0 .. (budget - used) :
       /\ nRepeat' = nr
       /\ used' = used + nr
  /\ pc' = "smooth"
  /\ j' = 0
  /\ i' = 3
  /\ lastOp' = "smooth"
  /\ UNCHANGED << mainVars, carbonAlphaMatrix, m, input, budget, pair, exportVars >>

\* smooth entered with no trace held: x = m->m reads through a null
\* pointer.  Undefined: the call faults, or returns having done nothing.
smoothNull ==
  /\ pc = "idle"
  /\ m = << >>
  /\ pc' \in { "fault", "idle" }
  /\ lastOp' = "smooth"
  /\ UNCHANGED << mainVars, carbonAlphaMatrix, m, nRepeat, j, i, input, budget, used, pair, exportVars >>

\* The body of the inner loop for index i (j < nRepeat, i < n), then i += 3.
smoothStep ==
  /\ pc = "smooth"
  /\ j < nRepeat
  /\ i < LoopBound(m[1])
  /\ \E out \in BodyOutcomes(m[1], i) :
       /\ m' = << out.m >>
       /\ pc' = IF out.fault THEN "fault" ELSE pc
       /\ i' = IF out.fault THEN i ELSE i + 3
  /\ UNCHANGED << mainVars, carbonAlphaMatrix, nRepeat, j, input, budget, used, lastOp, pair, exportVars >>

\* A plausible slip: i is declared outside the loops and not set back, so a
\* later pass of the same call finds nothing to visit.
smoothNextPassNoReset ==
  /\ pc = "smooth"
  /\ j < nRepeat
  /\ ~ (i < LoopBound(m[1]))
  /\ j' = j + 1
  /\ UNCHANGED << mainVars, carbonAlphaMatrix, m, pc, nRepeat, i, input, budget, used, lastOp, pair, exportVars >>

\* The inner loop ends (i >= n): j++, and the next pass starts at i = 3.
smoothNextPass ==
  /\ pc = "smooth"
  /\ j < nRepeat
  /\ ~ (i < LoopBound(m[1]))
  /\ j' = j + 1
  /\ i' = 3
  /\ UNCHANGED << mainVars, carbonAlphaMatrix, m, pc, nRepeat, input, budget, used, lastOp, pair, exportVars >>

\* The outer loop ends (j >= nRepeat): smooth returns.
smoothReturn ==
  /\ pc = "smooth"
  /\ ~ (j < nRepeat)
  /\ pc' = "idle"
  /\ nRepeat' = 0
  /\ j' = 0
  /\ i' = 0
  /\ UNCHANGED << mainVars, carbonAlphaMatrix, m, input, budget, used, lastOp, pair, exportVars >>

Next ==
  \/ setMatrix
  \/ getMatrix
  \/ smoothAuto
  \/ smoothCall
  \/ smoothNull
  \/ smoothStep
  \/ smoothNextPass
  \/ smoothReturn

Spec == Init /\ [][Next]_vars

\* Every candidate the run computes is exact in 1/Scale units.
ExactAlways ==
  (pc = "smooth" /\ j < nRepeat /\ i < LoopBound(m[1])
     /\ InBounds(m[1].m, LoopBound(m[1]), i))
    => Exact(m[1].m, i)

(* ------------------------ notions the claims use ---------------------- *)

\* The matrices held by some handle.
HeldSet ==
  { h[1] : h \in { hh \in { carbonAlphaMatrix, m } : hh # << >> } }

\* A smooth call on the held trace has finished all nRepeat > 0 passes.
PassesDone == pc = "smooth" /\ nRepeat > 0 /\ j = nRepeat

\* Six times the signed volume of the tetrahedron (a, b, c, d).
Orient(a, b, c, d) == DOT(SUB3(b, a), CROSS(SUB3(c, a), SUB3(d, a)))

\* The segment (p, q) passes through the inside of the triangle (a, b, c):
\* p and q lie strictly on opposite sides of its plane and the line through
\* them passes strictly inside its three edges.
Crosses(p, q, a, b, c) ==
  /\ Sign(Orient(a, b, c, p)) * Sign(Orient(a, b, c, q)) = -1
  /\ Sign(Orient(p, q, a, b)) # 0
  /\ Sign(Orient(p, q, a, b)) = Sign(Orient(p, q, b, c))
  /\ Sign(Orient(p, q, a, b)) = Sign(Orient(p, q, c, a))

\* The segment (v[kv-1], v[kv]) crosses T_prev or T_next of the move of the
\* vertex at array index ii to cand.
SegCrossesSwept(x, ii, cand, kv) ==
  LET p == At(x, 3 * kv - 3)
      q == At(x, 3 * kv)
  IN  \/ Crosses(p, q, At(x, ii - 3), At(x, ii), cand)
      \/ Crosses(p, q, At(x, ii), cand, At(x, ii + 3))

\* Some segment not adjacent to the vertex at array index ii crosses a swept
\* triangle of its move to cand.
SweptCrossed(mat, ii, cand) ==
  \E kv \in 1 .. (mat.s - 1) :
    /\ kv \notin { ii \div 3, (ii \div 3) + 1 }
    /\ SegCrossesSwept(mat.m, ii, cand, kv)

(* ------------------------------- claims -------------------------------- *)

\* C1: smooth leaves the vertex count unchanged and leaves the coordinates
\* of index 0 and index count-1 unchanged, for every repeatCount >= 0: only
\* array slots 3 .. 3*count-4 are ever written.  Stated of every matrix any
\* handle holds, at every point of every call.
C1_CountAndEndpoints ==
  \A mat \in HeldSet :
    /\ mat.s = input.s
    /\ mat.n = input.n
    /\ DOMAIN mat.m = DOMAIN input.m
    /\ \A idx \in DOMAIN mat.m :
         (idx < 3 \/ idx > 3 * mat.s - 4) => mat.m[idx] = input.m[idx]

\* C1's case: a call has finished its passes and has moved an interior vertex.
C1_Witness == PassesDone /\ m[1].m # input.m

\* C2: smooth never lets the curve pass through itself: whenever the move
\* of interior vertex i to its candidate is committed, neither swept
\* triangle T_prev = (v[i-1], v[i], candidate), T_next = (v[i], candidate,
\* v[i+1]) is crossed by a segment of the trace not adjacent to vertex i.
C2_NoCrossingOnCommit ==
  [][ (pc = "smooth" /\ pc' = "smooth" /\ m' # m)
        => ~ SweptCrossed(m[1], i, At(m'[1].m, i)) ]_vars

\* C3: for a trace with count < 3, smooth(repeatCount) is a no-op for every
\* repeatCount and never faults: n = m->n - 3 (-3 for count = 0) admits no
\* interior index, so the loop body is never entered and no slot is read or
\* written.
C3_ShortTraceNoOp ==
  input.s < 3 =>
    /\ LoopBound(input) = 3 * input.s - 3
    /\ \A mat \in HeldSet : mat = input
    /\ pc = "fault" => m = << >>
    /\ pc = "smooth" => (i = 3 /\ ~ ENABLED smoothStep)

\* C3's case: smooth(nRepeat > 0) has run all its passes on an empty trace.
C3_Witness == input.s = 0 /\ PassesDone

\* All points of the matrix lie on one line.
Collinear(mat) ==
  \A a, b, c \in 0 .. (mat.s - 1) :
    CROSS(SUB3(At(mat.m, 3 * b), At(mat.m, 3 * a)),
          SUB3(At(mat.m, 3 * c), At(mat.m, 3 * a))) = << 0, 0, 0 >>

\* Every interior vertex is the midpoint of its two neighbours (the points
\* are collinear and equally spaced).
EquallySpaced(mat) ==
  \A iv \in 1 .. (mat.s - 2) : \A ax \in 0 .. 2 :
    2 * mat.m[3 * iv + ax] = mat.m[3 * iv - 3 + ax] + mat.m[3 * iv + 3 + ax]

\* C4 as stated: if all points of the trace are exactly collinear, the
\* candidate of every interior index equals the vertex's position and smooth
\* returns the input unchanged.
C4_CollinearFixedPoint ==
  Collinear(input) => \A mat \in HeldSet : mat = input

\* C4 as amended: if every interior vertex is the midpoint of its two
\* neighbours, the candidate of every interior index equals the vertex's
\* position and smooth returns the input unchanged, for any repeatCount.
C4_EquallySpacedFixedPoint ==
  EquallySpaced(input) =>
    /\ \A mat \in HeldSet : mat = input
    /\ (pc = "smooth" /\ ENABLED smoothStep)
         => V1p(m[1].m, i) = At(m[1].m, i)

\* C4's case: a three-point equally spaced trace has been through all the
\* passes of a call.
C4_Witness == input.s = 3 /\ EquallySpaced(input) /\ PassesDone

\* C5: Scenario A: on (0,0,0), (1,0,0), (2,0,0), (3,0,0), (4,0,0) smooth(5)
\* leaves all five points unchanged, after every pass.
C5_ScenarioA ==
  input = DoubleMatrix(ScenarioA) => \A mat \in HeldSet : mat = input

\* C5's case: smooth(5) has run its five passes on Scenario A.
C5_Witness ==
  input = DoubleMatrix(ScenarioA) /\ pc = "smooth" /\ nRepeat = 5 /\ j = 5

\* The first call with a positive nRepeat was smooth(1) and has run its pass.
FirstPassDone == pc = "smooth" /\ nRepeat = 1 /\ j = 1 /\ used = 1

\* C6: Scenario B, generalised: on any 3-point trace both probe sets of the
\* single interior vertex are empty, so smooth(1) commits index 1 to
\* ((v0 + v2) / 2 + v1) / 2 per axis and leaves indices 0 and 2 unchanged;
\* (0,0,0), (1,1,0), (2,0,0) becomes (0,0,0), (1,0.5,0), (2,0,0).
C6_ThreePoint ==
  (input.s = 3 /\ FirstPassDone) =>
    /\ EarlierK(3) = { }
    /\ LaterK(3, LoopBound(input)) = { }
    /\ \A ax \in 0 .. 2 :
         /\ 4 * m[1].m[3 + ax]
              = input.m[ax] + 2 * input.m[3 + ax] + input.m[6 + ax]
         /\ m[1].m[ax] = input.m[ax]
         /\ m[1].m[6 + ax] = input.m[6 + ax]
    /\ input = DoubleMatrix(ScenarioB)
         => /\ At(m[1].m, 0) = << 0, 0, 0 >>
            /\ At(m[1].m, 3) = << Scale, Scale \div 2, 0 >>
            /\ At(m[1].m, 6) = << 2 * Scale, 0, 0 >>

\* C6's case: smooth(1) has run its pass on Scenario B.
C6_Witness == input = DoubleMatrix(ScenarioB) /\ FirstPassDone

\* C7: Scenario C: a trace of at least 6 points in which the swept triangle
\* of one interior vertex's move is crossed by a distant segment and
\* smooth(1) leaves that vertex where it was, while another, unobstructed
\* interior vertex is moved to its candidate in the same pass.  Here vertex
\* 1 is crossed by the segment (v3, v4) and rejected, and vertex 2 is moved.
C7_ScenarioC ==
  (input = DoubleMatrix(ScenarioC) /\ FirstPassDone) =>
    /\ input.s >= 6
    /\ SegCrossesSwept(input.m, 3, V1p(input.m, 3), 4)
    /\ Intersect(input.m, LoopBound(input), 3)
    /\ At(m[1].m, 3) = At(input.m, 3)
    /\ ~ SweptCrossed(input, 6, V1p(input.m, 6))
    /\ At(m[1].m, 6) = V1p(input.m, 6)
    /\ At(m[1].m, 6) # At(input.m, 6)

\* C7's case: smooth(1) has run its pass on Scenario C.
C7_Witness ==
  /\ input = DoubleMatrix(ScenarioC)
  /\ FirstPassDone
  /\ At(m[1].m, 3) = At(input.m, 3)
  /\ At(m[1].m, 6) # At(input.m, 6)

\* A second call smooth(1) has run its pass after one earlier pass.
SecondPassDone == pc = "smooth" /\ nRepeat = 1 /\ j = 1 /\ used = 2

\* C9: smooth is not idempotent in general: there is a trace, not a fixed
\* point, for which a second smooth(1) gives a trace different from the
\* result of the first.  Scenario B is one, and so is every 3-point trace
\* whose middle vertex is not the midpoint of its neighbours.
C9_NotIdempotent ==
  (input.s = 3 /\ ~ EquallySpaced(input) /\ SecondPassDone) =>
    /\ SmoothFn(input.m, LoopBound(input), 1) # input.m
    /\ m[1].m # SmoothFn(input.m, LoopBound(input), 1)

\* C9's case: the second smooth(1) has run its pass on Scenario B.
C9_Witness == input = DoubleMatrix(ScenarioB) /\ SecondPassDone

\* C10: smoothAuto() performs no mutation: in any state a call leaves the
\* trace coordinates, the count and the ownership of the trace unchanged.
C10_SmoothAutoNoMutation ==
  [][ lastOp' = "smoothAuto"
        => (m' = m /\ carbonAlphaMatrix' = carbonAlphaMatrix /\ pc' = pc) ]_vars

\* C10's case: smoothAuto has been called on an algorithm holding a trace
\* that an earlier smooth has changed.
C10_Witness ==
  lastOp = "smoothAuto" /\ m # << >> /\ m[1] # input

(* ------------------ two independent runs of smooth --------------------- *)

\* Two TaylorKnotAlgorithm objects, each holding its own copy of the same
\* matrix, each called with smooth(nRepeat) for the same nRepeat.  Each run
\* has its own x, j and i; log records <<j, i, committed>> for every vertex
\* the run has visited.
InitPair ==
  \E inp \in Inputs :
    \E nr \in 0 .. inp.budget :
      /\ pair = [ r \in 1 .. 2 |->
                    [ m |-> inp.matrix, j |-> 0, i |-> 3,
                      pc |-> "smooth", log |-> << >> ] ]
      /\ nRepeat = nr
      /\ input = inp.matrix
      /\ budget = inp.budget
      /\ carbonAlphaMatrix = << >>
      /\ m = << >>
      /\ pc = "idle"
      /\ j = 0
      /\ i = 0
      /\ used = nr
      /\ lastOp = "smooth"
      /\ matrix_ = << >>
      /\ matrixPtr_ = << >>
      /\ shapePtr_ = << >>
      /\ OCCT_ShapePtr = << >>
      /\ MainIdle

\* Run r executes the body of its inner loop for its index i.
pairStep ==
  \E r \in DOMAIN pair :
    /\ pair[r].pc = "smooth"
    /\ pair[r].j < nRepeat
    /\ pair[r].i < LoopBound(pair[r].m)
    /\ \E out \in BodyOutcomes(pair[r].m, pair[r].i) :
         pair' = [ pair EXCEPT
                     ![r] = [ m   |-> out.m,
                              j   |-> pair[r].j,
                              i   |-> IF out.fault THEN pair[r].i
                                      ELSE pair[r].i + 3,
                              pc  |-> IF out.fault THEN "fault" ELSE "smooth",
                              log |-> Append(pair[r].log,
                                             << pair[r].j, pair[r].i,
                                                out.accept >>) ] ]
    /\ UNCHANGED << mainVars, carbonAlphaMatrix, m, pc, nRepeat, j, i, input, budget,
                    used, lastOp, exportVars >>

\* A plausible slip: the pass counter is not advanced.
pairNextPassNoIncrement ==
  \E r \in DOMAIN pair :
    /\ pair[r].pc = "smooth"
    /\ pair[r].j < nRepeat
    /\ ~ (pair[r].i < LoopBound(pair[r].m))
    /\ pair' = [ pair EXCEPT ![r].i = 3 ]
    /\ UNCHANGED << mainVars, carbonAlphaMatrix, m, pc, nRepeat, j, i, input, budget,
                    used, lastOp, exportVars >>

\* Run r ends its inner loop: j++, and the next pass starts at i = 3.
pairNextPass ==
  \E r \in DOMAIN pair :
    /\ pair[r].pc = "smooth"
    /\ pair[r].j < nRepeat
    /\ ~ (pair[r].i < LoopBound(pair[r].m))
    /\ pair' = [ pair EXCEPT ![r].j = @ + 1, ![r].i = 3 ]
    /\ UNCHANGED << mainVars, carbonAlphaMatrix, m, pc, nRepeat, j, i, input, budget,
                    used, lastOp, exportVars >>

\* Run r ends its outer loop: its smooth call returns.
pairReturn ==
  \E r \in DOMAIN pair :
    /\ pair[r].pc = "smooth"
    /\ ~ (pair[r].j < nRepeat)
    /\ pair' = [ pair EXCEPT ![r].pc = "done" ]
    /\ UNCHANGED << mainVars, carbonAlphaMatrix, m, pc, nRepeat, j, i, input, budget,
                    used, lastOp, exportVars >>

NextPair ==
  \/ pairStep
  \/ pairNextPass
  \/ pairReturn

SpecPair == InitPair /\ [][NextPair]_vars

\* s is an initial part of t.
IsPrefix(s, t) == Len(s) <= Len(t) /\ SubSeq(t, 1, Len(s)) = s

\* C8: two independent runs of smooth started from identical traces with the
\* same nRepeat visit the same (pass, index) sequence and take the same
\* commit/reject decision at every step (whichever run is behind has a log
\* that is an initial part of the other's); at equal progress they hold
\* identical matrices; neither faults; and once both have returned they hold
\* the same matrix, the one the input trace and nRepeat alone determine.
C8_Determinism ==
  /\ IsPrefix(pair[1].log, pair[2].log) \/ IsPrefix(pair[2].log, pair[1].log)
  /\ \A r \in 1 .. 2 : pair[r].pc # "fault"
  /\ Len(pair[1].log) = Len(pair[2].log) => pair[1].m = pair[2].m
  /\ (pair[1].pc = "done" /\ pair[2].pc = "done") =>
       /\ pair[1].log = pair[2].log
       /\ pair[1].m = pair[2].m
       /\ pair[1].m.m = SmoothFn(input.m, LoopBound(input), nRepeat)

\* Both runs have returned after a pass in which one vertex was moved and
\* another was rejected.
C8_Witness ==
  /\ pair[1].pc = "done"
  /\ pair[2].pc = "done"
  /\ \E a, b \in 1 .. Len(pair[1].log) :
       pair[1].log[a][3] /\ ~ pair[1].log[b][3]

(* ------------- the handles of the import and export side --------------- *)

\* Traces handed along the setMatrix / getMatrix chain have at most this
\* many points.
MaxShapeCount == 3

\* main holds the trace; no collaborator holds anything yet.
InitHandoff ==
  \E pts \in UNION { [ 1 .. c -> Points ] : c \in 0 .. MaxShapeCount } :
    /\ carbonAlphaMatrix = << DoubleMatrix(pts) >>
    /\ input = DoubleMatrix(pts)
    /\ m = << >>
    /\ pc = "idle"
    /\ nRepeat = 0
    /\ j = 0
    /\ i = 0
    /\ budget = 0
    /\ used = 0
    /\ lastOp = "init"
    /\ pair = << >>
    /\ matrix_ = << >>
    /\ matrixPtr_ = << >>
    /\ shapePtr_ = << >>
    /\ OCCT_ShapePtr = << >>
    /\ MainIdle

\* converter1.setMatrix(std::move(carbonAlphaMatrix)): matrix_ = std::move(matrixPtr)
MMDB_setMatrix ==
  /\ pc = "idle"
  /\ matrix_' = carbonAlphaMatrix
  /\ carbonAlphaMatrix' = << >>
  /\ lastOp' = "MMDB_setMatrix"
  /\ UNCHANGED << mainVars, m, pc, nRepeat, j, i, input, budget, used, pair,
                  matrixPtr_, shapePtr_, OCCT_ShapePtr >>

\* A plausible slip: the handle is copied out and the collaborator keeps it.
MMDB_getMatrixKeep ==
  /\ pc = "idle"
  /\ carbonAlphaMatrix' = matrix_
  /\ matrix_' = matrix_
  /\ lastOp' = "MMDB_getMatrix"
  /\ UNCHANGED << mainVars, m, pc, nRepeat, j, i, input, budget, used, pair,
                  matrixPtr_, shapePtr_, OCCT_ShapePtr >>

\* carbonAlphaMatrix = converter1.getMatrix(): return std::move(matrix_)
MMDB_getMatrix ==
  /\ pc = "idle"
  /\ carbonAlphaMatrix' = matrix_
  /\ matrix_' = << >>
  /\ lastOp' = "MMDB_getMatrix"
  /\ UNCHANGED << mainVars, m, pc, nRepeat, j, i, input, budget, used, pair,
                  matrixPtr_, shapePtr_, OCCT_ShapePtr >>

\* shapeConverter.setMatrix(std::move(carbonAlphaMatrix)):
\* matrixPtr_ = std::move(matrixPtr)
OCCT_setMatrix ==
  /\ pc = "idle"
  /\ matrixPtr_' = carbonAlphaMatrix
  /\ carbonAlphaMatrix' = << >>
  /\ lastOp' = "OCCT_setMatrix"
  /\ UNCHANGED << mainVars, m, pc, nRepeat, j, i, input, budget, used, pair,
                  matrix_, shapePtr_, OCCT_ShapePtr >>

\* carbonAlphaMatrix = shapeConverter.getMatrix(): return std::move(matrixPtr_)
OCCT_getMatrix ==
  /\ pc = "idle"
  /\ carbonAlphaMatrix' = matrixPtr_
  /\ matrixPtr_' = << >>
  /\ lastOp' = "OCCT_getMatrix"
  /\ UNCHANGED << mainVars, m, pc, nRepeat, j, i, input, budget, used, pair,
                  matrix_, shapePtr_, OCCT_ShapePtr >>

\* A plausible slip: pntLastPtr is set by the first point only, so every
\* edge runs back to vertex 0.
RECURSIVE ToShapeFromFirst(_, _, _, _)
ToShapeFromFirst(mat, ii, pntLast, edges) ==
  IF ii < mat.n
  THEN LET pntCurrent == [ i |-> ii, p |-> At(mat.m, ii) ]
       IN  ToShapeFromFirst(mat, ii + 3,
                            IF pntLast # << >> THEN pntLast
                            ELSE << pntCurrent >>,
                            IF pntLast # << >>
                            THEN Append(edges, << pntCurrent, pntLast[1] >>)
                            ELSE edges)
  ELSE edges

\* for (size_t i = 0; i < matrixPtr_->n; i += 3): make pntCurrent from
\* m[i], m[i+1], m[i+2]; if pntLast is set, add the edge
\* MakeEdge(pntCurrent, pntLast) to the compound; pntLast = pntCurrent.
\* A point is held with the array index it was made from.
RECURSIVE ToShapeFrom(_, _, _, _)
ToShapeFrom(mat, ii, pntLast, edges) ==
  IF ii < mat.n
  THEN LET pntCurrent == [ i |-> ii, p |-> At(mat.m, ii) ]
       IN  ToShapeFrom(mat, ii + 3, << pntCurrent >>,
                       IF pntLast # << >>
                       THEN Append(edges, << pntCurrent, pntLast[1] >>)
                       ELSE edges)
  ELSE edges

\* shapeConverter.toShape() with a matrix held: shapePtr_ is a fresh shape
\* whose compound holds the edges of the loop.  The matrix is only read.
toShape ==
  /\ pc = "idle"
  /\ matrixPtr_ # << >>
  /\ shapePtr_' = << ToShapeFrom(matrixPtr_[1], 0, << >>, << >>) >>
  /\ lastOp' = "toShape"
  /\ UNCHANGED << mainVars, carbonAlphaMatrix, m, pc, nRepeat, j, i, input, budget,
                  used, pair, matrix_, matrixPtr_, OCCT_ShapePtr >>

\* shapeConverter.toShape() with no matrix held: matrixPtr_->n reads through
\* a null handle, which is undefined behaviour: the call faults, or returns
\* with an empty compound.
toShapeNull ==
  /\ pc = "idle"
  /\ matrixPtr_ = << >>
  /\ pc' \in { "fault", "idle" }
  /\ shapePtr_' = << << >> >>
  /\ lastOp' = "toShape"
  /\ UNCHANGED << mainVars, carbonAlphaMatrix, m, nRepeat, j, i, input, budget,
                  used, pair, matrix_, matrixPtr_, OCCT_ShapePtr >>

\* OCCT_ShapePtr = shapeConverter.getShape(): return std::move(shapePtr_)
getShape ==
  /\ pc = "idle"
  /\ OCCT_ShapePtr' = shapePtr_
  /\ shapePtr_' = << >>
  /\ lastOp' = "getShape"
  /\ UNCHANGED << mainVars, carbonAlphaMatrix, m, pc, nRepeat, j, i, input, budget,
                  used, pair, matrix_, matrixPtr_ >>

NextHandoff ==
  \/ setMatrix
  \/ getMatrix
  \/ MMDB_setMatrix
  \/ MMDB_getMatrix
  \/ OCCT_setMatrix
  \/ OCCT_getMatrix
  \/ toShape
  \/ toShapeNull
  \/ getShape

SpecHandoff == InitHandoff /\ [][NextHandoff]_vars

\* The handles that hold a trace.
Holders ==
  { h \in { "caller", "TaylorKnotAlgorithm", "MMDBAndCarbonAlphaMatrix",
            "CarbonAlphaMatrixAndOCCT_Shape" } :
      CASE h = "caller" -> carbonAlphaMatrix # << >>
        [] h = "TaylorKnotAlgorithm" -> m # << >>
        [] h = "MMDBAndCarbonAlphaMatrix" -> matrix_ # << >>
        [] h = "CarbonAlphaMatrixAndOCCT_Shape" -> matrixPtr_ # << >> }

SetOps == { "setMatrix", "MMDB_setMatrix", "OCCT_setMatrix" }

GetOps == { "getMatrix", "MMDB_getMatrix", "OCCT_getMatrix" }

\* The handle of the collaborator that operation op belongs to.
HandleOf(op) ==
  CASE op \in { "setMatrix", "getMatrix" } -> m
    [] op \in { "MMDB_setMatrix", "MMDB_getMatrix" } -> matrix_
    [] op \in { "OCCT_setMatrix", "OCCT_getMatrix" } -> matrixPtr_

\* C11: after any sequence of setMatrix / getMatrix calls on the three
\* collaborators the trace is held by at most one holder; right after a
\* setMatrix the caller's handle is empty, right after a getMatrix the
\* collaborator's handle is empty, and a getMatrix that directly follows a
\* getMatrix on the same collaborator hands back an empty handle.
C11_SingleOwner ==
  /\ [](Cardinality(Holders) <= 1)
  /\ [](lastOp \in SetOps => carbonAlphaMatrix = << >>)
  /\ [](lastOp \in GetOps => HandleOf(lastOp) = << >>)
  /\ [][(lastOp \in GetOps /\ lastOp' = lastOp) => carbonAlphaMatrix' = << >>]_vars

\* The trace went to the shape converter and came back, and a second
\* getMatrix has then emptied the caller's handle.
C11_Witness ==
  /\ lastOp = "OCCT_getMatrix"
  /\ Holders = { }
  /\ shapePtr_ # << >>

(* --------------------- smooth runs to completion ----------------------- *)

\* One probe loop run step by step: for (k = kk; k < hi; k += 3), leaving
\* through "goto intersect" on a hit and through "continue" (k += 3)
\* otherwise.  later selects the ray: FALSE (x + k - 3, x + k), TRUE
\* (x + k, x + k + 3).  The result lists the k the loop body ran for and
\* tells whether the loop left by the goto.
RECURSIVE ProbeLoop(_, _, _, _, _, _, _, _)
ProbeLoop(x, kk, hi, later, v0, v1, v2, ks) ==
  IF kk < hi
  THEN LET rayOrigin == IF later THEN At(x, kk) ELSE At(x, kk - 3)
           rayDirection == IF later THEN At(x, kk + 3) ELSE At(x, kk)
       IN  IF MollerTrumbore(rayOrigin, rayDirection, v0, v1, v2)
           THEN [ ks |-> Append(ks, kk), hit |-> TRUE ]
           ELSE ProbeLoop(x, kk + 3, hi, later, v0, v1, v2, Append(ks, kk))
  ELSE [ ks |-> ks, hit |-> FALSE ]

\* The four probe loops of vertex i, in the order of the source.
ProbeLoops(x, nn, ii) ==
  LET v0a == At(x, ii - 3)
      v1a == At(x, ii)
      v2a == At(x, ii + 3)
      v1p == V1p(x, ii)
  IN  << ProbeLoop(x, 3, ii, FALSE, v0a, v1a, v1p, << >>),
         ProbeLoop(x, 3, ii, FALSE, v1a, v1p, v2a, << >>),
         ProbeLoop(x, ii + 3, nn, TRUE, v0a, v1a, v1p, << >>),
         ProbeLoop(x, ii + 3, nn, TRUE, v1a, v1p, v2a, << >>) >>

\* One TaylorKnotAlgorithm object inside its smooth(nRepeat) call, with its
\* log.
InitRun ==
  \E inp \in Inputs :
    \E nr \in 0 .. inp.budget :
      /\ pair = [ r \in 1 .. 1 |->
                    [ m |-> inp.matrix, j |-> 0, i |-> 3,
                      pc |-> "smooth", log |-> << >> ] ]
      /\ nRepeat = nr
      /\ input = inp.matrix
      /\ budget = inp.budget
      /\ carbonAlphaMatrix = << >>
      /\ m = << >>
      /\ pc = "idle"
      /\ j = 0
      /\ i = 0
      /\ used = nr
      /\ lastOp = "smooth"
      /\ matrix_ = << >>
      /\ matrixPtr_ = << >>
      /\ shapePtr_ = << >>
      /\ OCCT_ShapePtr = << >>
      /\ MainIdle

SpecRun == InitRun /\ [][NextPair]_vars

\* The call goes on while it can: smooth is a running thread of control, so
\* a step that stays possible is eventually taken.
SpecRunFair == SpecRun /\ WF_vars(NextPair)

\* The number of interior vertices of a trace.
Interior(mat) == IF mat.s >= 3 THEN mat.s - 2 ELSE 0

\* nr passes over the interior vertices 1 .. count-2 in increasing order, as
\* <<pass, array index>>.
Visits(mat, nr) ==
  [ e \in 1 .. (nr * Interior(mat)) |->
      << (e - 1) \div Interior(mat), 3 * (((e - 1) % Interior(mat)) + 1) >> ]

\* The <<pass, array index>> part of a run's log.
Visited(log) == [ e \in 1 .. Len(log) |-> << log[e][1], log[e][2] >> ]

\* A probe loop started at k = start ran its body for start, start + 3, ...
\* without a gap or a repeat, and ran for all cnt of its segments unless it
\* left by the goto.
LoopAdvances(res, start, cnt) ==
  /\ \A e \in 1 .. Len(res.ks) : res.ks[e] = start + 3 * (e - 1)
  /\ Len(res.ks) <= cnt
  /\ ~ res.hit => Len(res.ks) = cnt

ToShapeDone == lastOp = "toShape" /\ pc = "idle" /\ matrixPtr_ # << >>

\* C13: toShape adds exactly one edge for each consecutive pair of vertices
\* (v[e-1], v[e]), e = 1 .. count-1, in increasing index order (count-1
\* edges, none when count <= 1), each edge joining the coordinates of these
\* two vertices, none joining vertices that are not consecutive, and it
\* leaves the held trace as it was.
C13_EdgesInIndexOrder ==
  ToShapeDone =>
    LET mat == matrixPtr_[1]
        edges == shapePtr_[1]
    IN  /\ Len(edges) = (IF mat.s <= 1 THEN 0 ELSE mat.s - 1)
        /\ \A e \in 1 .. Len(edges) :
             /\ edges[e][1].i = 3 * e
             /\ edges[e][2].i = 3 * (e - 1)
             /\ edges[e][1].p = At(mat.m, 3 * e)
             /\ edges[e][2].p = At(mat.m, 3 * (e - 1))
        /\ mat = input

\* toShape has run on a trace of three points and left two edges.
C13_Witness ==
  /\ ToShapeDone
  /\ matrixPtr_[1].s = 3
  /\ Len(shapePtr_[1]) = 2

(* ------------------------- order within a pass ------------------------- *)

\* The three-tap average of three points, axis by axis.
Kernel(a, b, c) ==
  [ ax \in 1 .. 3 |-> ((a[ax] + c[ax]) \div 2 + b[ax]) \div 2 ]

\* The buffer after the steps for ii, ii + 3, .. below stop.
RECURSIVE PassFromTo(_, _, _, _)
PassFromTo(x, nn, ii, stop) ==
  IF ii < stop /\ ii < nn /\ InBounds(x, nn, ii)
  THEN PassFromTo(StepResult(x, nn, ii), nn, ii + 3, stop)
  ELSE x

\* C14: within a pass the interior indices are visited in increasing order
\* and commits are made in place: when the run is about to visit index i
\* (or has just finished the pass), the step before it was the one for
\* i - 1 in the same pass, v[i-1] holds what that step left (its candidate
\* if committed, its old value if rejected), v[i] and v[i+1] still hold
\* what the previous pass left, and the candidate of i is the three-tap
\* average of exactly these values.
C14_GaussSeidel ==
  \A r \in DOMAIN pair :
    LET run == pair[r]
        x == run.m.m
        nn == LoopBound(run.m)
        ii == run.i
    IN  (run.pc = "smooth" /\ run.j < nRepeat /\ ii >= 6 /\ ii <= nn) =>
          LET start == SmoothFn(input.m, nn, run.j)
              before == PassFromTo(start, nn, 3, ii - 3)
              last == run.log[Len(run.log)]
          IN  /\ last[1] = run.j
              /\ last[2] = ii - 3
              /\ At(x, ii - 3) =
                   IF last[3]
                   THEN Kernel(At(before, ii - 6), At(before, ii - 3),
                               At(before, ii))
                   ELSE At(before, ii - 3)
              /\ ii < nn =>
                   /\ At(x, ii) = At(start, ii)
                   /\ At(x, ii + 3) = At(start, ii + 3)
                   /\ V1p(x, ii) = Kernel(At(x, ii - 3), At(start, ii),
                                          At(start, ii + 3))

\* A run is about to visit a vertex whose earlier neighbour was moved by the
\* step before, so that its candidate differs from the one the values at the
\* start of the pass would give.
C14_Witness ==
  \E r \in DOMAIN pair :
    LET run == pair[r]
        x == run.m.m
        nn == LoopBound(run.m)
        start == SmoothFn(input.m, nn, run.j)
    IN  /\ run.pc = "smooth"
        /\ run.j < nRepeat
        /\ run.i >= 6
        /\ run.i < nn
        /\ run.log[Len(run.log)][3]
        /\ At(x, run.i - 3) # At(start, run.i - 3)
        /\ V1p(x, run.i) # V1p(start, run.i)

(* ---------------------------- the candidate ---------------------------- *)

\* Run r is about to execute the body of its inner loop.
AtVertex(r) ==
  /\ pair[r].pc = "smooth"
  /\ pair[r].j < nRepeat
  /\ pair[r].i < LoopBound(pair[r].m)

\* The step taken is the body of run r's inner loop, without a fault.
StepOf(r) ==
  /\ AtVertex(r)
  /\ pair'[r].pc = "smooth"
  /\ Len(pair'[r].log) = Len(pair[r].log) + 1

\* C15: for every interior index and each axis the candidate is
\* ((v[i-1] + v[i+1]) / 2 + v[i]) / 2, which is
\* 0.25 v[i-1] + 0.5 v[i] + 0.25 v[i+1] of the positions currently in the
\* trace (four times the candidate is v[i-1] + 2 v[i] + v[i+1]); computing
\* it writes nothing to the trace: a step that rejects leaves every slot as
\* it was, whatever the candidate, and a step that commits changes no slot
\* other than those of v[i].
C15_Candidate ==
  /\ [](\A r \in DOMAIN pair :
          AtVertex(r) =>
            LET x == pair[r].m.m
                ii == pair[r].i
            IN  \A ax \in 0 .. 2 :
                  /\ V1p(x, ii)[ax + 1] =
                       ((x[ii - 3 + ax] + x[ii + 3 + ax]) \div 2 + x[ii + ax])
                         \div 2
                  /\ 4 * V1p(x, ii)[ax + 1] =
                       x[ii - 3 + ax] + 2 * x[ii + ax] + x[ii + 3 + ax])
  /\ [][\A r \in DOMAIN pair :
          StepOf(r) =>
            LET x == pair[r].m.m
                y == pair'[r].m.m
                ii == pair[r].i
                committed == pair'[r].log[Len(pair'[r].log)][3]
            IN  /\ ~ committed => y = x
                /\ \A idx \in DOMAIN x :
                     (idx < ii \/ idx > ii + 2) => y[idx] = x[idx]]_vars

\* A step has just rejected a candidate that differed from the vertex.
C15_Witness ==
  \E r \in DOMAIN pair :
    LET run == pair[r]
    IN  /\ run.pc = "smooth"
        /\ Len(run.log) > 0
        /\ ~ run.log[Len(run.log)][3]
        /\ run.log[Len(run.log)][1] = run.j
        /\ V1p(run.m.m, run.i - 3) # At(run.m.m, run.i - 3)

(* --------------------------- commit or reject -------------------------- *)

\* C16: a step for interior vertex i has exactly two outcomes.  If a probe
\* of one of the four probe loops hits, the step rejects and the whole trace,
\* the three coordinates of v[i] included, is as before.  Otherwise the step
\* commits: the three coordinates of v[i] are the candidate and every other
\* slot is as before.  No step writes some axes of v[i] and not the others.
C16_CommitOrReject ==
  [][\A r \in DOMAIN pair :
       StepOf(r) =>
         LET x == pair[r].m.m
             y == pair'[r].m.m
             ii == pair[r].i
             committed == pair'[r].log[Len(pair'[r].log)][3]
             res == ProbeLoops(x, LoopBound(pair[r].m), ii)
         IN  IF \E g \in 1 .. 4 : res[g].hit
             THEN ~ committed /\ y = x
             ELSE /\ committed
                  /\ At(y, ii) = V1p(x, ii)
                  /\ \A idx \in DOMAIN x :
                       (idx < ii \/ idx > ii + 2) => y[idx] = x[idx]]_vars

\* The first step of a run has committed a candidate that differs from the
\* old vertex on all three axes.
C16_Witness ==
  \E r \in DOMAIN pair :
    LET run == pair[r]
    IN  /\ run.pc = "smooth"
        /\ run.j = 0
        /\ run.i = 6
        /\ run.log[1][3]
        /\ \A ax \in 0 .. 2 : run.m.m[3 + ax] # input.m[3 + ax]

(* --------------------------- the hit predicate ------------------------- *)

\* Every probe of the four probe loops of vertex i, as
\* << group, rayOrigin, rayDirection, v0, v1, v2 >>.
Probes(x, nn, ii) ==
  LET v0a == At(x, ii - 3)
      v1a == At(x, ii)
      v2a == At(x, ii + 3)
      v1p == V1p(x, ii)
  IN  { << 1, At(x, kk - 3), At(x, kk), v0a, v1a, v1p >> : kk \in EarlierK(ii) }
        \cup
      { << 2, At(x, kk - 3), At(x, kk), v1a, v1p, v2a >> : kk \in EarlierK(ii) }
        \cup
      { << 3, At(x, kk), At(x, kk + 3), v0a, v1a, v1p >> : kk \in LaterK(ii, nn) }
        \cup
      { << 4, At(x, kk), At(x, kk + 3), v1a, v1p, v2a >> : kk \in LaterK(ii, nn) }

\* The determinant and the numerators of u, v and t of a probe, with the
\* sign turned so that the determinant is not negative: u = uN / det,
\* v = vN / det, t = tN / det.
Params(p) ==
  LET edge1 == SUB3(p[5], p[4])
      edge2 == SUB3(p[6], p[4])
      tvec == SUB3(p[2], p[4])
      d == DOT(edge1, CROSS(p[3], edge2))
      sg == IF d < 0 THEN -1 ELSE 1
  IN  [ det |-> sg * d,
        uN |-> sg * DOT(tvec, CROSS(p[3], edge2)),
        vN |-> sg * DOT(p[3], CROSS(tvec, edge1)),
        tN |-> sg * DOT(edge2, CROSS(tvec, edge1)),
        flat |-> CROSS(edge1, edge2) = << 0, 0, 0 >> ]

\* |det| < 1e-6, for det in units of 1 / Scale^3: det < Scale^3 / 10^6,
\* that is, det below that quotient rounded up.
BelowEpsilon(q) ==
  q.det < ((Scale * Scale * Scale) + detEpsInv - 1) \div detEpsInv

\* 0 <= u <= 1, v >= 0, u + v < 1 and tNear < t < tFar, for det > 0.
InRange(q) ==
  /\ 0 <= q.uN
  /\ q.uN <= q.det
  /\ 0 <= q.vN
  /\ q.uN + q.vN < q.det
  /\ q.det \div tNearInv < q.tN
  /\ q.tN \div tFar < q.det

\* C17: the four probe loops apply one and the same hit predicate.  A probe
\* with |det| < 1e-6 reports no intersection, so a swept triangle that is
\* degenerate never rejects; any other probe reports a hit exactly when
\* 0 <= u <= 1, v >= 0, u + v < 1 and tNear < t < tFar, both bounds of t
\* exclusive.
C17_HitPredicate ==
  \A r \in DOMAIN pair :
    AtVertex(r) =>
      \A p \in Probes(pair[r].m.m, LoopBound(pair[r].m), pair[r].i) :
        LET q == Params(p)
            hit == MollerTrumbore(p[2], p[3], p[4], p[5], p[6])
        IN  /\ BelowEpsilon(q) => ~ hit
            /\ q.flat => ~ hit
            /\ ~ BelowEpsilon(q) => (hit <=> InRange(q))

\* A run is at a vertex one of whose probes has a negative determinant and
\* hits, while another has a determinant of zero.
C17_Witness ==
  \E r \in DOMAIN pair :
    /\ AtVertex(r)
    /\ \E p1, p2 \in Probes(pair[r].m.m, LoopBound(pair[r].m), pair[r].i) :
         /\ MollerTrumbore(p1[2], p1[3], p1[4], p1[5], p1[6])
         /\ DOT(SUB3(p1[5], p1[4]), CROSS(p1[3], SUB3(p1[6], p1[4]))) < 0
         /\ BelowEpsilon(Params(p2))

(* ------------------------- the ends of the trace ----------------------- *)

\* C18: for the first interior index (array index 3) the two probe loops
\* over the earlier segments run for no segment and report no hit, so the
\* move is rejected only if a later segment hits; for the last interior index
\* (array index n - 3) the two probe loops over the later segments run for
\* no segment, so the move is rejected only if an earlier segment hits; in
\* neither case does the step fault.
C18_EndsProbeNothing ==
  /\ [](\A r \in DOMAIN pair :
          AtVertex(r) =>
            LET nn == LoopBound(pair[r].m)
                ii == pair[r].i
                res == ProbeLoops(pair[r].m.m, nn, ii)
            IN  /\ ii = 3 =>
                     /\ EarlierK(ii) = { }
                     /\ \A g \in { 1, 2 } :
                          res[g].ks = << >> /\ ~ res[g].hit
                /\ ii = nn - 3 =>
                     /\ LaterK(ii, nn) = { }
                     /\ \A g \in { 3, 4 } :
                          res[g].ks = << >> /\ ~ res[g].hit)
  /\ [][\A r \in DOMAIN pair :
          (AtVertex(r) /\ pair'[r] # pair[r]) =>
            LET nn == LoopBound(pair[r].m)
                ii == pair[r].i
                res == ProbeLoops(pair[r].m.m, nn, ii)
                committed == pair'[r].log[Len(pair'[r].log)][3]
            IN  /\ pair'[r].pc = "smooth"
                /\ Len(pair'[r].log) = Len(pair[r].log) + 1
                /\ ii = 3 => (committed <=> ~ (res[3].hit \/ res[4].hit))
                /\ ii = nn - 3 =>
                     (committed <=> ~ (res[1].hit \/ res[2].hit))]_vars

\* On a trace of four or more points the first pass has committed the first
\* interior vertex and rejected the last one.
C18_Witness ==
  \E r \in DOMAIN pair :
    LET run == pair[r]
    IN  /\ input.s >= 4
        /\ run.pc = "smooth"
        /\ run.j = 0
        /\ run.i = LoopBound(run.m)
        /\ run.log[1][3]
        /\ ~ run.log[Len(run.log)][3]

(* -------------------------- the segments probed ------------------------ *)

\* Segment S_k joins vertex k - 1 and vertex k.  The earlier loop at array
\* index kk takes its ray from x + kk - 3 to x + kk, the vertices kk/3 - 1
\* and kk/3: it probes S_(kk/3).
ProbedEarlier(ii) == { kk \div 3 : kk \in EarlierK(ii) }

\* The later loop at array index kk takes its ray from x + kk to x + kk + 3,
\* the vertices kk/3 and kk/3 + 1: it probes S_(kk/3 + 1).
ProbedLater(ii, nn) == { (kk \div 3) + 1 : kk \in LaterK(ii, nn) }

\* The segments of a trace: S_1 .. S_(count-1).
Segments(mat) == 1 .. (mat.s - 1)

\* C19, as stated: for interior vertex i the earlier segments probed are
\* exactly the S_k with k strictly before i - 1, and the later segments
\* probed are exactly the S_k with k strictly after i + 1.
C19_ProbedAsStated ==
  \A r \in DOMAIN pair :
    AtVertex(r) =>
      LET mat == pair[r].m
          vi == pair[r].i \div 3
      IN  /\ ProbedEarlier(pair[r].i) =
               { k \in Segments(mat) : k < vi - 1 }
          /\ ProbedLater(pair[r].i, LoopBound(mat)) =
               { k \in Segments(mat) : k > vi + 1 }

\* C19, amended: for interior vertex i the earlier segments probed are
\* exactly the S_k with k strictly before i (S_(i-1), which joins vertices
\* i - 2 and i - 1, is probed), and the later segments probed are exactly
\* the S_k with k strictly after i + 1.
C19_ProbedSegments ==
  \A r \in DOMAIN pair :
    AtVertex(r) =>
      LET mat == pair[r].m
          vi == pair[r].i \div 3
      IN  /\ ProbedEarlier(pair[r].i) = { k \in Segments(mat) : k < vi }
          /\ ProbedLater(pair[r].i, LoopBound(mat)) =
               { k \in Segments(mat) : k > vi + 1 }

\* A run is at the second interior vertex of a trace of five points or
\* more: there are segments to probe on both sides.
C19_Witness ==
  \E r \in DOMAIN pair :
    /\ AtVertex(r)
    /\ pair[r].i = 6
    /\ ProbedEarlier(pair[r].i) = { 1 }
    /\ ProbedLater(pair[r].i, LoopBound(pair[r].m)) # { }

(* ------------------------ coverage of the guard ------------------------ *)

\* The segments a probe loop ran its body for: S_(k/3) for an earlier loop,
\* S_(k/3 + 1) for a later loop.
SegmentsRun(res, later) ==
  { (res.ks[e] \div 3) + (IF later THEN 1 ELSE 0) : e \in 1 .. Len(res.ks) }

\* C20: whenever a step commits the move of interior vertex i, each probe
\* loop has run to its end: every segment not incident to vertex i, the
\* first segment S_1 and the last segment S_(count-1) included, has been
\* probed against the triangle {i-1, i, i'} and against the triangle
\* {i, i', i+1}; and in no step, committed or not, is one of the two
\* segments incident to vertex i, S_i and S_(i+1), probed.
C20_AllOthersProbed ==
  [][\A r \in DOMAIN pair :
       StepOf(r) =>
         LET mat == pair[r].m
             vi == pair[r].i \div 3
             res == ProbeLoops(mat.m, LoopBound(mat), pair[r].i)
             committed == pair'[r].log[Len(pair'[r].log)][3]
             prev == SegmentsRun(res[1], FALSE) \cup SegmentsRun(res[3], TRUE)
             next == SegmentsRun(res[2], FALSE) \cup SegmentsRun(res[4], TRUE)
         IN  /\ committed =>
                  /\ prev = Segments(mat) \ { vi, vi + 1 }
                  /\ next = Segments(mat) \ { vi, vi + 1 }
             /\ (prev \cup next) \cap { vi, vi + 1 } = { }]_vars

\* A step has committed the second interior vertex of a trace of five
\* points or more: the first and the last segment were among those probed.
C20_Witness ==
  \E r \in DOMAIN pair :
    LET run == pair[r]
    IN  /\ input.s >= 5
        /\ run.pc = "smooth"
        /\ run.i = 9
        /\ run.log[Len(run.log)] = << run.j, 6, TRUE >>

(* ----------------------------- the probe ray --------------------------- *)

\* The hit test of one probe from the determinant and the numerators of u, v
\* and t, for a ray given by its origin and the vector used as direction.
HitWith(origin, direction, tri) ==
  LET q == Params(<< 0, origin, direction, tri[1], tri[2], tri[3] >>)
  IN  ~ BelowEpsilon(q) /\ InRange(q)

\* The segments probed for vertex i (array index ii), earlier and later.
ProbedFor(ii, nn) == ProbedEarlier(ii) \cup ProbedLater(ii, nn)

\* The two swept triangles of vertex i.
Swept(x, ii) ==
  { << At(x, ii - 3), At(x, ii), V1p(x, ii) >>,
    << At(x, ii), V1p(x, ii), At(x, ii + 3) >> }

\* C21: in every probe of the four probe loops the ray origin is the near
\* vertex of the segment (vertex k - 1 of S_k) and the vector used as ray
\* direction in the determinant and in u, v and t is the absolute position
\* of the far vertex (vertex k), not the edge vector far - near: a step
\* commits exactly when no probed segment hits a swept triangle under the
\* hit test taken with that origin and that direction.
C21_AbsoluteDirection ==
  [][\A r \in DOMAIN pair :
       StepOf(r) =>
         LET x == pair[r].m.m
             ii == pair[r].i
             committed == pair'[r].log[Len(pair'[r].log)][3]
         IN  committed <=>
               \A k \in ProbedFor(ii, LoopBound(pair[r].m)) :
                 \A tri \in Swept(x, ii) :
                   ~ HitWith(At(x, 3 * (k - 1)), At(x, 3 * k), tri)]_vars

\* A step has committed a move under the far vertex's position as direction,
\* while with the edge vector far - near as direction a later segment would
\* have hit a swept triangle of that vertex.
C21_Witness ==
  \E r \in DOMAIN pair :
    LET run == pair[r]
        nn == LoopBound(run.m)
        ii == run.i - 3
        x == PassFromTo(SmoothFn(input.m, nn, run.j), nn, 3, ii)
    IN  /\ run.pc = "smooth"
        /\ Len(run.log) > 0
        /\ run.log[Len(run.log)] = << run.j, ii, TRUE >>
        /\ run.m.m = Commit(x, ii, V1p(x, ii))
        /\ \E k \in ProbedLater(ii, nn) :
             \E tri \in Swept(x, ii) :
               HitWith(At(x, 3 * (k - 1)),
                       SUB3(At(x, 3 * k), At(x, 3 * (k - 1))), tri)

(* ------------------- the four probe loops, interleaved ----------------- *)

\* One TaylorKnotAlgorithm object inside its smooth(nRepeat) call, its four
\* probe loops followed probe by probe: v1p is the candidate buffer, k the
\* loop variable of each probe loop, hit tells which loops left by
\* "goto intersect".
InitProbe ==
  \E inp \in Inputs :
    \E nr \in 0 .. inp.budget :
      /\ pair = [ r \in 1 .. 1 |->
                    [ m |-> inp.matrix, j |-> 0, i |-> 3,
                      pc |-> "smooth", log |-> << >>,
                      v1p |-> << 0, 0, 0 >>,
                      k |-> << 3, 3, 3, 3 >>,
                      hit |-> << FALSE, FALSE, FALSE, FALSE >> ] ]
      /\ nRepeat = nr
      /\ input = inp.matrix
      /\ budget = inp.budget
      /\ carbonAlphaMatrix = << >>
      /\ m = << >>
      /\ pc = "idle"
      /\ j = 0
      /\ i = 0
      /\ used = nr
      /\ lastOp = "smooth"
      /\ matrix_ = << >>
      /\ matrixPtr_ = << >>
      /\ shapePtr_ = << >>
      /\ OCCT_ShapePtr = << >>
      /\ MainIdle

\* The bound of probe loop g: k < i for the earlier loops, k < n for the
\* later ones.
ProbeBound(run, g) == IF g <= 2 THEN run.i ELSE LoopBound(run.m)

\* The triangle of probe loop g: {i-1, i, i'} for loops 1 and 3,
\* {i, i', i+1} for loops 2 and 4.
ProbeTriangle(run, g) ==
  IF g \in { 1, 3 }
  THEN << At(run.m.m, run.i - 3), At(run.m.m, run.i), run.v1p >>
  ELSE << At(run.m.m, run.i), run.v1p, At(run.m.m, run.i + 3) >>

\* Run r enters the body of its inner loop: the candidate is written to
\* v1p and the probe loops stand at their first k.  A slot outside the
\* buffer leaves the body with one of the outcomes of BodyOutcomes.
probeBegin ==
  \E r \in DOMAIN pair :
    LET run == pair[r]
    IN  /\ run.pc = "smooth"
        /\ run.j < nRepeat
        /\ run.i < LoopBound(run.m)
        /\ IF InBounds(run.m.m, LoopBound(run.m), run.i)
           THEN pair' = [ pair EXCEPT
                            ![r].pc = "probing",
                            ![r].v1p = V1p(run.m.m, run.i),
                            ![r].k = << 3, 3, run.i + 3, run.i + 3 >>,
                            ![r].hit = << FALSE, FALSE, FALSE, FALSE >> ]
           ELSE \E out \in BodyOutcomes(run.m, run.i) :
                  pair' = [ pair EXCEPT
                              ![r].m = out.m,
                              ![r].i = IF out.fault THEN @ ELSE @ + 3,
                              ![r].pc = IF out.fault THEN "fault"
                                        ELSE "smooth",
                              ![r].log = Append(@, << run.j, run.i,
                                                      out.accept >>) ]
        /\ UNCHANGED << mainVars, carbonAlphaMatrix, m, pc, nRepeat, j, i, input,
                        budget, used, lastOp, exportVars >>

\* One probe body of one probe loop of run r: on a hit the loop leaves by
\* "goto intersect", otherwise k += 3.  The body writes its own locals
\* (edge1, edge2, pvec, tvec, qvec) and nothing else.
probeStep ==
  \E r \in DOMAIN pair :
    \E g \in 1 .. 4 :
      LET run == pair[r]
          kk == run.k[g]
          tri == ProbeTriangle(run, g)
          rayOrigin == IF g <= 2 THEN At(run.m.m, kk - 3)
                       ELSE At(run.m.m, kk)
          rayDirection == IF g <= 2 THEN At(run.m.m, kk)
                          ELSE At(run.m.m, kk + 3)
      IN  /\ run.pc = "probing"
          /\ ~ run.hit[g]
          /\ kk < ProbeBound(run, g)
          /\ IF MollerTrumbore(rayOrigin, rayDirection,
                               tri[1], tri[2], tri[3])
             THEN pair' = [ pair EXCEPT ![r].hit[g] = TRUE ]
             ELSE pair' = [ pair EXCEPT ![r].k[g] = kk + 3 ]
          /\ UNCHANGED << mainVars, carbonAlphaMatrix, m, pc, nRepeat, j, i, input,
                          budget, used, lastOp, exportVars >>

\* A plausible slip: the move committed as soon as one probe loop has run
\* to its end without a hit, the other loops not waited for.
probeCommitEarly ==
  \E r \in DOMAIN pair :
    LET run == pair[r]
    IN  /\ run.pc = "probing"
        /\ \A g \in 1 .. 4 : ~ run.hit[g]
        /\ \E g \in 1 .. 4 : ~ (run.k[g] < ProbeBound(run, g))
        /\ pair' = [ pair EXCEPT
                       ![r].m.m = Commit(@, run.i, run.v1p),
                       ![r].i = @ + 3,
                       ![r].pc = "smooth",
                       ![r].log = Append(@, << run.j, run.i, TRUE >>) ]
        /\ UNCHANGED << mainVars, carbonAlphaMatrix, m, pc, nRepeat, j, i, input,
                        budget, used, lastOp, exportVars >>

\* Every probe loop of run r has run to its end without a hit: v1p is
\* copied to v1a and the inner loop goes on with i += 3.
probeCommit ==
  \E r \in DOMAIN pair :
    LET run == pair[r]
    IN  /\ run.pc = "probing"
        /\ \A g \in 1 .. 4 :
             ~ run.hit[g] /\ ~ (run.k[g] < ProbeBound(run, g))
        /\ pair' = [ pair EXCEPT
                       ![r].m.m = Commit(@, run.i, run.v1p),
                       ![r].i = @ + 3,
                       ![r].pc = "smooth",
                       ![r].log = Append(@, << run.j, run.i, TRUE >>) ]
        /\ UNCHANGED << mainVars, carbonAlphaMatrix, m, pc, nRepeat, j, i, input,
                        budget, used, lastOp, exportVars >>

\* A probe loop of run r has left by "goto intersect": the commit is jumped
\* over and the inner loop goes on with i += 3.
probeIntersect ==
  \E r \in DOMAIN pair :
    LET run == pair[r]
    IN  /\ run.pc = "probing"
        /\ \E g \in 1 .. 4 : run.hit[g]
        /\ pair' = [ pair EXCEPT
                       ![r].i = @ + 3,
                       ![r].pc = "smooth",
                       ![r].log = Append(@, << run.j, run.i, FALSE >>) ]
        /\ UNCHANGED << mainVars, carbonAlphaMatrix, m, pc, nRepeat, j, i, input,
                        budget, used, lastOp, exportVars >>

NextProbe ==
  \/ probeBegin
  \/ probeStep
  \/ probeCommit
  \/ probeIntersect
  \/ pairNextPass
  \/ pairReturn

\* The probe bodies of the four loops of a vertex run in any order and any
\* interleaving; the source's order (loop 1 to its end, then 2, 3, 4) is one
\* of them.
SpecProbe == InitProbe /\ [][NextProbe]_vars

\* C22: the four probe loops of a vertex are read-only and independent of
\* each other.  No probe changes the trace or the candidate; and in whatever
\* order and interleaving the probe bodies of the four loops run, the step
\* rejects exactly when at least one probe of some loop hits, its decision
\* and the trace it leaves are those of the loops run in source order, and
\* so is the trace the whole call returns.
C22_ProbesIndependent ==
  /\ [][\A r \in DOMAIN pair :
          LET run == pair[r]
              x == run.m.m
              nn == LoopBound(run.m)
              res == ProbeLoops(x, nn, run.i)
              committed == pair'[r].log[Len(pair'[r].log)][3]
          IN  /\ (run.pc = "probing" /\ pair'[r].pc = "probing") =>
                   /\ pair'[r].m = run.m
                   /\ pair'[r].v1p = run.v1p
                   /\ pair'[r].v1p = V1p(x, run.i)
              /\ (run.pc = "probing" /\ pair'[r].pc = "smooth") =>
                   /\ committed <=>
                        ~ \E p \in Probes(x, nn, run.i) :
                            MollerTrumbore(p[2], p[3], p[4], p[5], p[6])
                   /\ committed <=> ~ \E g \in 1 .. 4 : res[g].hit
                   /\ pair'[r].m.m = StepResult(x, nn, run.i)]_vars
  /\ [](\A r \in DOMAIN pair :
          pair[r].pc = "done" =>
            pair[r].m.m = SmoothFn(input.m, LoopBound(input), nRepeat))

\* A step has rejected a move on a hit found out of source order: a loop
\* that comes earlier in the source, and whose probes the source order runs
\* first, had not run a single probe when the later loop hit.
C22_Witness ==
  \E r \in DOMAIN pair :
    LET run == pair[r]
        ii == run.i - 3
        res == ProbeLoops(run.m.m, LoopBound(run.m), ii)
    IN  /\ run.pc = "smooth"
        /\ Len(run.log) > 0
        /\ run.log[Len(run.log)] = << run.j, ii, FALSE >>
        /\ \E g, h \in 1 .. 4 :
             /\ g < h
             /\ res[g].ks # << >>
             /\ ~ run.hit[g]
             /\ run.k[g] = IF g <= 2 THEN 3 ELSE ii + 3
             /\ run.hit[h]

(* --------------------- a pass from the pass-start snapshot ------------- *)

\* One pass in which every interior vertex takes its candidate and its
\* guard decision from the trace as it was when the pass began (Jacobi),
\* the moves written only at the end.
JacobiPass(x, nn) ==
  [ idx \in DOMAIN x |->
      LET ii == idx - (idx % 3)
      IN  IF 3 <= ii /\ ii < nn /\ ~ Intersect(x, nn, ii)
          THEN V1p(x, ii)[(idx % 3) + 1]
          ELSE x[idx] ]

\* Run r has finished smooth(1), in which the steps for ii - 3 and ii both
\* committed, the move of ii - 3 was a real one, and the guard of ii taken
\* on the pass-start trace lets ii move as well.
BothCommitted(r, ii) ==
  LET run == pair[r]
      nn == LoopBound(input)
      before == PassFromTo(input.m, nn, 3, ii - 3)
  IN  /\ run.pc = "done"
      /\ nRepeat = 1
      /\ \E e \in 1 .. (Len(run.log) - 1) :
           /\ run.log[e] = << 0, ii - 3, TRUE >>
           /\ run.log[e + 1] = << 0, ii, TRUE >>
      /\ V1p(before, ii - 3) # At(before, ii - 3)
      /\ ~ Intersect(input.m, nn, ii)

\* C23: there are traces on which a pass that takes every candidate and
\* guard decision from the pass-start snapshot gives another trace than the
\* in-place pass of smooth(1): whenever smooth(1) commits a real move of a
\* vertex and then commits the next vertex, which the snapshot guard lets
\* move too, that next vertex ends a quarter of the earlier move away from
\* where the snapshot pass puts it, so the two traces differ.
C23_JacobiDiffers ==
  \A r \in DOMAIN pair :
    \A ii \in 6 .. (LoopBound(input) - 1) :
      BothCommitted(r, ii) =>
        LET nn == LoopBound(input)
            seq == pair[r].m.m
            jac == JacobiPass(input.m, nn)
        IN  /\ seq = SmoothFn(input.m, nn, 1)
            /\ jac # seq
            /\ \A ax \in 1 .. 3 :
                 4 * (At(seq, ii)[ax] - At(jac, ii)[ax]) =
                   At(seq, ii - 3)[ax] - At(input.m, ii - 3)[ax]

\* smooth(1) has returned a trace whose second interior vertex is not where
\* the snapshot pass puts it, both passes agreeing on the first.
C23_Witness ==
  \E r \in DOMAIN pair :
    /\ BothCommitted(r, 6)
    /\ At(pair[r].m.m, 3) = At(JacobiPass(input.m, LoopBound(input)), 3)
    /\ At(pair[r].m.m, 6) # At(JacobiPass(input.m, LoopBound(input)), 6)

(* ------------------- main: the model and chain selected ---------------- *)

MaxModels == 3
MaxChains == 2

\* The chain ids a model's chain table can hold.
ChainIds == { "A", "B" }

\* The chain tables of a model: up to MaxChains chains, in table order.
ChainTables == UNION { [ 1 .. c -> ChainIds ] : c \in 0 .. MaxChains }

\* The model tables GetModelTable can hand out: nModels entries, each null
\* (<< >>) or a model, the model at table index im carrying the serial
\* number im + 1.
ModelTables ==
  UNION { [ 1 .. c -> { << >> } \cup
                        { << [ chains |-> ct ] >> : ct \in ChainTables } ] :
            c \in 0 .. MaxModels }

\* modelTable[im]->GetSerNum(), for the 1-based position of the entry.
GetSerNum(pos) == pos

\* main at "Selecting First Chain of Model": modelId = -1, chainId declared
\* without a value, the model table fetched, im = 0.
InitSelect ==
  \E t \in ModelTables :
    /\ modelTable = t
    /\ im = 0
    /\ modelId = -1
    /\ chainId = "indeterminate"
    /\ mainPc = "107"
    /\ round = 0
    /\ files = << >>
    /\ carbonAlphaMatrix = << >>
    /\ m = << >>
    /\ pc = "idle"
    /\ nRepeat = 0
    /\ j = 0
    /\ i = 0
    /\ input = << >>
    /\ budget = 0
    /\ used = 0
    /\ lastOp = "init"
    /\ pair = << >>
    /\ matrix_ = << >>
    /\ matrixPtr_ = << >>
    /\ shapePtr_ = << >>
    /\ OCCT_ShapePtr = << >>

\* One round of for (im = 0; im < nModels; im++): for a model that is not
\* null, modelId = its serial number, and the inner loop over its chain
\* table sets chainId to the first chain's id and breaks (out of the inner
\* loop only); with no chain, chainId is left as it was.
selectModel ==
  /\ mainPc = "107"
  /\ im < Len(modelTable)
  /\ LET entry == modelTable[im + 1]
     IN  IF entry # << >>
         THEN /\ modelId' = GetSerNum(im + 1)
              /\ chainId' = IF Len(entry[1].chains) > 0
                            THEN entry[1].chains[1]
                            ELSE chainId
         ELSE UNCHANGED << modelId, chainId >>
  /\ im' = im + 1
  /\ UNCHANGED << carbonAlphaMatrix, m, pc, nRepeat, j, i, input, budget,
                  used, lastOp, pair, exportVars, modelTable, mainPc,
                  round, files >>

\* im < nModels fails: the loop over the model table is left.
selectEnd ==
  /\ mainPc = "107"
  /\ ~ (im < Len(modelTable))
  /\ mainPc' = "118"
  /\ UNCHANGED << carbonAlphaMatrix, m, pc, nRepeat, j, i, input, budget,
                  used, lastOp, pair, exportVars, modelTable, im, modelId,
                  chainId, round, files >>

\* if (chainId): a chain id that was assigned is a non-null string and the
\* pipeline is entered; one that never was is read without a value, which
\* is undefined: the pipeline is entered, or skipped, or the read faults.
selectTest ==
  /\ mainPc = "118"
  /\ IF chainId = "indeterminate"
     THEN mainPc' \in { "120", "172", "fault" }
     ELSE mainPc' = "120"
  /\ UNCHANGED << carbonAlphaMatrix, m, pc, nRepeat, j, i, input, budget,
                  used, lastOp, pair, exportVars, modelTable, im, modelId,
                  chainId, round, files >>

NextSelect ==
  \/ selectModel
  \/ selectEnd
  \/ selectTest

SpecSelect == InitSelect /\ [][NextSelect]_vars

\* The positions of the models of the table that are not null.
Models == { pos \in 1 .. Len(modelTable) : modelTable[pos] # << >> }

\* The first model of the table.
FirstModel == CHOOSE pos \in Models : \A q \in Models : pos <= q

\* C24: after the selection loop, for every structure with one or more
\* models, modelId is the serial number of the first model of the model
\* table and chainId is the id of the first chain of that same model (when
\* it has a chain).
C24_FirstModelFirstChain ==
  (mainPc = "118" /\ Models # { }) =>
    /\ modelId = GetSerNum(FirstModel)
    /\ Len(modelTable[FirstModel][1].chains) > 0 =>
         chainId = modelTable[FirstModel][1].chains[1]

(* ----------------------- main: the smoothing rounds -------------------- *)

\* for (int i = 1; i <= 20; i++): the number of rounds followed.
Rounds == 2

\* taylorAlgorithm.smooth(50): the number of passes of a round followed.
PassesPerRound == 1

\* The traces main is followed on: those of up to MaxShapeCount points, and
\* Scenario A and B, all of whose passes of all rounds are followed exactly.
DriverInputs ==
  { inp \in { InputOf(pts, Rounds * PassesPerRound) :
                pts \in UNION { [ 1 .. c -> Points ] :
                                  c \in 0 .. MaxShapeCount }
                          \cup { ScenarioA, ScenarioB } } :
      inp.budget = Rounds * PassesPerRound }

\* main at "Converting matrix to OCCT Shape...": the trace is with the
\* caller (taken back from converter1), shapeConverter is constructed.
InitDriver ==
  \E inp \in DriverInputs :
    /\ carbonAlphaMatrix = << inp.matrix >>
    /\ input = inp.matrix
    /\ budget = inp.budget
    /\ used = 0
    /\ m = << >>
    /\ pc = "idle"
    /\ nRepeat = 0
    /\ j = 0
    /\ i = 0
    /\ lastOp = "MMDB_getMatrix"
    /\ pair = << >>
    /\ matrix_ = << >>
    /\ matrixPtr_ = << >>
    /\ shapePtr_ = << >>
    /\ OCCT_ShapePtr = << >>
    /\ modelTable = << >>
    /\ im = 0
    /\ modelId = 1
    /\ chainId = "A"
    /\ mainPc = "135"
    /\ round = 0
    /\ files = << >>

\* The line main goes to after the line it stands at.
After(line) ==
  CASE line = "135" -> "136"
    [] line = "136" -> "137"
    [] line = "137" -> "139"
    [] line = "139" -> "143"
    [] line = "143" -> "149"
    [] line = "150" -> "152"
    [] line = "152" -> "153"
    [] line = "153" -> "155"
    [] line = "155" -> "156"
    [] line = "156" -> "157"
    [] line = "157" -> "159"
    [] line = "159" -> "163"
    [] line = "163" -> "149"

\* shapeConverter.setMatrix(std::move(carbonAlphaMatrix)), lines 135, 155.
mainShapeSetMatrix ==
  /\ pc = "idle"
  /\ mainPc \in { "135", "155" }
  /\ matrixPtr_' = carbonAlphaMatrix
  /\ carbonAlphaMatrix' = << >>
  /\ lastOp' = "OCCT_setMatrix"
  /\ mainPc' = After(mainPc)
  /\ UNCHANGED << m, pc, nRepeat, j, i, input, budget, used, pair, matrix_,
                  shapePtr_, OCCT_ShapePtr, modelTable, im, modelId, chainId,
                  round, files >>

\* shapeConverter.toShape(), lines 136, 156.  With no matrix held the read
\* of matrixPtr_->n is undefined: the call faults, or returns with an empty
\* compound.
mainToShape ==
  /\ pc = "idle"
  /\ mainPc \in { "136", "156" }
  /\ IF matrixPtr_ # << >>
     THEN /\ shapePtr_' = << ToShapeFrom(matrixPtr_[1], 0, << >>, << >>) >>
          /\ pc' = pc
     ELSE /\ shapePtr_' = << << >> >>
          /\ pc' \in { "fault", "idle" }
  /\ lastOp' = "toShape"
  /\ mainPc' = After(mainPc)
  /\ UNCHANGED << carbonAlphaMatrix, m, nRepeat, j, i, input, budget, used,
                  pair, matrix_, matrixPtr_, OCCT_ShapePtr, modelTable, im,
                  modelId, chainId, round, files >>

\* OCCT_ShapePtr = shapeConverter.getShape(), lines 137-138, 157-158.
mainGetShape ==
  /\ pc = "idle"
  /\ mainPc \in { "137", "157" }
  /\ OCCT_ShapePtr' = shapePtr_
  /\ shapePtr_' = << >>
  /\ lastOp' = "getShape"
  /\ mainPc' = After(mainPc)
  /\ UNCHANGED << carbonAlphaMatrix, m, pc, nRepeat, j, i, input, budget,
                  used, pair, matrix_, matrixPtr_, modelTable, im, modelId,
                  chainId, round, files >>

\* A plausible slip: the trace is not taken back from the shape converter.
mainShapeGetMatrixSkipped ==
  /\ pc = "idle"
  /\ mainPc \in { "139", "159" }
  /\ lastOp' = "OCCT_getMatrix"
  /\ mainPc' = After(mainPc)
  /\ UNCHANGED << carbonAlphaMatrix, m, pc, nRepeat, j, i, input, budget,
                  used, pair, matrix_, matrixPtr_, shapePtr_, OCCT_ShapePtr,
                  modelTable, im, modelId, chainId, round, files >>

\* carbonAlphaMatrix = shapeConverter.getMatrix(), lines 139, 159.
mainShapeGetMatrix ==
  /\ pc = "idle"
  /\ mainPc \in { "139", "159" }
  /\ carbonAlphaMatrix' = matrixPtr_
  /\ matrixPtr_' = << >>
  /\ lastOp' = "OCCT_getMatrix"
  /\ mainPc' = After(mainPc)
  /\ UNCHANGED << m, pc, nRepeat, j, i, input, budget, used, pair, matrix_,
                  shapePtr_, OCCT_ShapePtr, modelTable, im, modelId, chainId,
                  round, files >>

\* OCCT_ShapePtr->writeSTEP(<stem>-<n>.stp), lines 143 and 163: the file is
\* named 0 before the loop and i in round i; in the loop i++ follows.  A
\* call through an empty handle is undefined: it faults, or writes an empty
\* shape.
mainWriteSTEP ==
  /\ pc = "idle"
  /\ mainPc \in { "143", "163" }
  /\ IF OCCT_ShapePtr # << >>
     THEN /\ files' = Append(files, [ name |-> round,
                                      shape |-> OCCT_ShapePtr[1] ])
          /\ pc' = pc
     ELSE /\ files' = Append(files, [ name |-> round, shape |-> << >> ])
          /\ pc' \in { "fault", "idle" }
  /\ round' = round + 1
  /\ lastOp' = "writeSTEP"
  /\ mainPc' = After(mainPc)
  /\ UNCHANGED << carbonAlphaMatrix, m, nRepeat, j, i, input, budget, used,
                  pair, matrix_, matrixPtr_, shapePtr_, OCCT_ShapePtr,
                  modelTable, im, modelId, chainId >>

\* i <= 20: the next round is entered, or the loop is left.
mainLoopTest ==
  /\ pc = "idle"
  /\ mainPc = "149"
  /\ mainPc' = IF round <= Rounds THEN "150" ELSE "172"
  /\ UNCHANGED << carbonAlphaMatrix, m, pc, nRepeat, j, i, input, budget,
                  used, lastOp, pair, matrix_, matrixPtr_, shapePtr_,
                  OCCT_ShapePtr, modelTable, im, modelId, chainId, round,
                  files >>

\* taylorAlgorithm.setMatrix(std::move(carbonAlphaMatrix)), line 150.
mainSetMatrix ==
  /\ pc = "idle"
  /\ mainPc = "150"
  /\ m' = carbonAlphaMatrix
  /\ carbonAlphaMatrix' = << >>
  /\ lastOp' = "setMatrix"
  /\ mainPc' = After(mainPc)
  /\ UNCHANGED << pc, nRepeat, j, i, input, budget, used, pair, matrix_,
                  matrixPtr_, shapePtr_, OCCT_ShapePtr, modelTable, im,
                  modelId, chainId, round, files >>

\* taylorAlgorithm.smooth(50), line 152: the call is entered; smoothStep,
\* smoothNextPass and smoothReturn carry it out.  With no trace held the
\* read of m->m is undefined: the call faults, or returns at once.
mainSmooth ==
  /\ pc = "idle"
  /\ mainPc = "152"
  /\ IF m # << >>
     THEN /\ pc' = "smooth"
          /\ nRepeat' = PassesPerRound
          /\ used' = used + PassesPerRound
          /\ j' = 0
          /\ i' = 3
     ELSE /\ pc' \in { "fault", "idle" }
          /\ UNCHANGED << nRepeat, used, j, i >>
  /\ lastOp' = "smooth"
  /\ mainPc' = After(mainPc)
  /\ UNCHANGED << carbonAlphaMatrix, m, input, budget, pair, matrix_,
                  matrixPtr_, shapePtr_, OCCT_ShapePtr, modelTable, im,
                  modelId, chainId, round, files >>

\* carbonAlphaMatrix = taylorAlgorithm.getMatrix(), line 153, once smooth
\* has returned.
mainGetMatrix ==
  /\ pc = "idle"
  /\ mainPc = "153"
  /\ carbonAlphaMatrix' = m
  /\ m' = << >>
  /\ lastOp' = "getMatrix"
  /\ mainPc' = After(mainPc)
  /\ UNCHANGED << pc, nRepeat, j, i, input, budget, used, pair, matrix_,
                  matrixPtr_, shapePtr_, OCCT_ShapePtr, modelTable, im,
                  modelId, chainId, round, files >>

NextDriver ==
  \/ mainShapeSetMatrix
  \/ mainToShape
  \/ mainGetShape
  \/ mainShapeGetMatrix
  \/ mainWriteSTEP
  \/ mainLoopTest
  \/ mainSetMatrix
  \/ mainSmooth
  \/ smoothStep
  \/ smoothNextPass
  \/ smoothReturn
  \/ mainGetMatrix

SpecDriver == InitDriver /\ [][NextDriver]_vars

\* The shape toShape builds from the input trace after p passes.
ShapeAfter(p) ==
  ToShapeFrom([ input EXCEPT !.m = SmoothFn(@, LoopBound(input), p) ],
              0, << >>, << >>)

\* C25: in the rounds of main every call of smooth comes right after the
\* setMatrix that hands the trace to the algorithm and before the getMatrix
\* that hands it back, so smooth is never called while the algorithm holds
\* no trace; the getMatrix follows the return of smooth and gives the
\* caller the trace; at every export the trace is back with the caller and
\* with no collaborator; the file written before the loop holds the shape
\* of the unsmoothed trace and the file of round i the shape of the trace
\* after i times the passes of one round; and main ends with one file per
\* round and the one before the loop.
C25_DriverRounds ==
  /\ [][(lastOp' = "smooth" /\ lastOp # "smooth") =>
          /\ lastOp = "setMatrix"
          /\ m # << >>
          /\ carbonAlphaMatrix = << >>
          /\ pc' = "smooth"
          /\ nRepeat' = PassesPerRound]_vars
  /\ [](pc = "smooth" => m # << >> /\ lastOp = "smooth")
  /\ [][(lastOp' = "getMatrix" /\ lastOp # "getMatrix") =>
          /\ lastOp = "smooth"
          /\ pc = "idle"
          /\ carbonAlphaMatrix' # << >>
          /\ m' = << >>
          /\ carbonAlphaMatrix'[1].m =
               SmoothFn(input.m, LoopBound(input), PassesPerRound * round)]_vars
  /\ [][files' # files =>
          /\ carbonAlphaMatrix # << >>
          /\ m = << >>
          /\ matrixPtr_ = << >>
          /\ pc' = "idle"
          /\ carbonAlphaMatrix[1].m =
               SmoothFn(input.m, LoopBound(input),
                        PassesPerRound * Len(files))]_vars
  /\ [](\A e \in 1 .. Len(files) :
          /\ files[e].name = e - 1
          /\ files[e].shape = ShapeAfter(PassesPerRound * (e - 1)))
  /\ [](mainPc = "172" => Len(files) = Rounds + 1)

\* main has left the loop having written a file for every round, and the
\* shapes of the file before the loop, of the first round and of the last
\* round differ from each other.
C25_Witness ==
  /\ mainPc = "172"
  /\ Len(files) = Rounds + 1
  /\ files[1].shape # files[2].shape
  /\ files[2].shape # files[Len(files)].shape
  /\ files[1].shape # files[Len(files)].shape

(* ---------------------------- passes compose --------------------------- *)

\* C26: passes compose.  smooth keeps nothing between passes or calls but
\* the trace: a call smooth(b) made after calls that asked for a passes in
\* all starts from the trace smooth(a) gives and ends with the trace
\* smooth(b) gives from there, which is the trace of a single smooth(a + b)
\* on the input; and whatever was called in between (getMatrix, setMatrix,
\* smoothAuto) the trace held after the calls is that of smooth(a + b).
C26_PassesCompose ==
  LET nn == LoopBound(input)
      a == used - nRepeat
      start == SmoothFn(input.m, nn, a)
  IN  /\ pc = "smooth" =>
           /\ (j = 0 /\ i = 3) => m[1].m = start
           /\ j = nRepeat =>
                /\ m[1].m = SmoothFn(start, nn, nRepeat)
                /\ m[1].m = SmoothFn(input.m, nn, a + nRepeat)
      /\ pc = "idle" =>
           \A mat \in HeldSet : mat.m = SmoothFn(input.m, nn, used)

\* A second call, smooth(1) after a smooth(1), has finished its pass; each
\* of the two calls has changed the trace.
C26_Witness ==
  /\ pc = "smooth"
  /\ nRepeat = 1
  /\ j = 1
  /\ used = 2
  /\ SmoothFn(input.m, LoopBound(input), 1) # input.m
  /\ m[1].m # SmoothFn(input.m, LoopBound(input), 1)

(* ------------------------------ translation ---------------------------- *)

\* The trace moved as a whole by the vector d.
Translate(x, d) == [ idx \in DOMAIN x |-> x[idx] + d[(idx % 3) + 1] ]

\* The array indices of the vertices one pass commits, from index ii on.
RECURSIVE CommittedFrom(_, _, _)
CommittedFrom(x, nn, ii) ==
  IF ii < nn /\ InBounds(x, nn, ii)
  THEN (IF Intersect(x, nn, ii) THEN { } ELSE { ii })
         \cup CommittedFrom(StepResult(x, nn, ii), nn, ii + 3)
  ELSE { }

\* The array indices of the vertices run r has committed.
CommittedBy(r) ==
  { pair[r].log[e][2] :
      e \in { q \in 1 .. Len(pair[r].log) : pair[r].log[q][3] } }

\* Translations by one unit along an axis, either way.
Shifts ==
  { d \in [ 1 .. 3 -> { - Scale, 0, Scale } ] :
      Cardinality({ ax \in 1 .. 3 : d[ax] # 0 }) = 1 }

\* A trace whose second interior vertex is held back by the guard where it
\* lies, and let go one unit further up the third axis.
ShiftTrace == << << 0, 0, 0 >>, << 0, 1, 1 >>, << 1, 0, 0 >>, << 1, 1, 0 >> >>

\* C27: the decisions of the guard depend on where the trace lies relative
\* to the origin.  The candidates move with the trace, and so does the
\* result of smooth(1) whenever the same vertices are committed; but there
\* are a trace and a translation d for which smooth(1) commits another set
\* of vertices on the translated trace: on (0,0,0), (0,1,1), (1,0,0),
\* (1,1,0) it commits vertex 1 only, on the same trace moved by (0,0,1)
\* vertices 1 and 2, so that smooth does not commute with translation.
C27_TranslationMatters ==
  \A r \in DOMAIN pair :
    (pair[r].pc = "done" /\ nRepeat = 1) =>
      LET x == input.m
          nn == LoopBound(input)
          up == << 0, 0, Scale >>
      IN  /\ CommittedBy(r) = CommittedFrom(x, nn, 3)
          /\ \A d \in Shifts :
               /\ \A ii \in 3 .. (nn - 1) :
                    ii % 3 = 0 =>
                      V1p(Translate(x, d), ii) =
                        [ ax \in 1 .. 3 |-> V1p(x, ii)[ax] + d[ax] ]
               /\ CommittedFrom(Translate(x, d), nn, 3) = CommittedBy(r) =>
                    SmoothFn(Translate(x, d), nn, 1) =
                      Translate(pair[r].m.m, d)
          /\ input = DoubleMatrix(ShiftTrace) =>
               /\ CommittedBy(r) = { 3 }
               /\ CommittedFrom(Translate(x, up), nn, 3) = { 3, 6 }
               /\ SmoothFn(Translate(x, up), nn, 1) #
                    Translate(pair[r].m.m, up)

\* smooth(1) has returned on that trace, having committed vertex 1 and
\* rejected vertex 2.
C27_Witness ==
  \E r \in DOMAIN pair :
    /\ pair[r].pc = "done"
    /\ nRepeat = 1
    /\ input = DoubleMatrix(ShiftTrace)
    /\ pair[r].log = << << 0, 3, TRUE >>, << 0, 6, FALSE >> >>

====
